---- MODULE Spec2Model ----
(***************************************************************************)
(* reddit-stream-console: the comment tree builder (buildCommentTree), the *)
(* bubbletea session (internal/app/app.go, type Model) and the tview       *)
(* session (go/internal/app/tview_app.go, type TviewApp).                  *)
(* The tview session includes its split mode (go/internal/app/pane.go,    *)
(* type CommentPane).                                                      *)
(*                                                                         *)
(* Strings that the code inspects (identifiers, authors, bodies, filter)   *)
(* are sequences of one-character strings, so that strings.TrimSpace,      *)
(* strings.ToLower and strings.Contains are computed, not assumed.         *)
(***************************************************************************)
EXTENDS Integers, Sequences, FiniteSets, TLC

VARIABLES
    \* ---- tree builder / ordering specifications
    input,          \* records as delivered by the fetch collaborator
    filterText,     \* the filter string handed to renderComments
    stored,         \* the comment list the session keeps (Model.comments / ta.comments)
    forest,         \* result of buildCommentTree: order, roots, children
    tphase,         \* "fetched" -> "shown"
    variant,        \* which session stored the list: "none", "model", "tview"
    renderWidth,    \* the width handed to renderComments
    rendered,       \* the text renderComments returned, as the sequence of its lines
    \* ---- thread search (client.go, FindThreads)
    search,         \* the query handed to FindThreads and the server's answer per phrase
    found,          \* what FindThreads returned, and how many requests it made
    \* ---- menu selection (tview_app.go, menuUp / menuDown and the pane's)
    menu,           \* the menu list, the selected indices, the position in a handler's
                    \* loop and the parity of the passes its loops have made
    \* ---- word wrapping (app.go, wrapWithPrefix)
    wrap,           \* the text, width and prefix handed to wrapWithPrefix and the lines it returned
    \* ---- bubbletea session (app.go, Model)
    mode, currentThread, threadsData, comments, commentFilter, filterActive,
    status, err, userScrolled, refreshEnabled, loadingComments,
    viewport,       \* Model.viewport: YOffset, number of content lines, Height
    \* ---- event loop environment of the bubbletea session
    fetches,        \* outstanding fetchCommentsCmd tasks: how many per thread
    ticks,          \* pending refreshTickMsg: how many of chains never stopped ("live")
                    \* and of chains begun before a stop ("stopped")
    searches,       \* outstanding fetchThreadsCmd tasks
    resolves,       \* outstanding fetchThreadFromURLCmd tasks
    \* ---- tview session (tview_app.go, TviewApp)
    ta,             \* the fields of TviewApp, the front page and the status bar text
    rt,             \* goroutines of the tview session and updates queued for its event loop
    sp,             \* split mode of the tview session: splitMode, activePaneID, the two panes
    prt             \* goroutines started for panes and the updates they will queue

treeVars == <<input, filterText, stored, forest, tphase, variant, renderWidth, rendered,
              search, found, menu, wrap>>
modelVars == <<mode, currentThread, threadsData, comments, commentFilter, filterActive,
               status, err, userScrolled, refreshEnabled, loadingComments, viewport>>
envVars == <<fetches, ticks, searches, resolves>>
paneVars == <<sp, prt>>
tviewVars == <<ta, rt, paneVars>>
vars == <<treeVars, modelVars, envVars, tviewVars>>

----------------------------------------------------------------------------
(* Bounds *)

\* longest delivered comment list
MaxComments == 3
\* largest creation timestamp drawn for a record
MaxStamp == 2
\* most comment fetches outstanding at once
MaxFetches == 2
\* most refresh ticks pending at once
MaxTicks == 2
\* most thread searches outstanding at once
MaxSearches == 1
\* most URL resolutions outstanding at once
MaxResolves == 1
\* most tasks of all kinds (fetches, searches, resolutions, pending ticks) at once
MaxTasks == 3
\* rows of the comment viewport after the terminal reported its size
ViewHeight == 2
\* most times split mode is entered in one run
MaxSplits == 1
\* largest width handed to the renderer
MaxWidth == 8
\* longest comment list handed to the renderer
MaxRendered == 2
\* flair phrases of a query, and children of a listing
MaxFlairs == 2
MaxPosts == 2
\* entries of the menu list
MaxMenu == 3
\* characters of a text handed to wrapWithPrefix
MaxText == 5
\* comments of a list whose forest is walked
MaxNodes == 4

----------------------------------------------------------------------------
(* Strings *)

\* strings.ToLower, on the characters the model draws
LowerChar(c) ==
    CASE c = "A" -> "a"
      [] c = "L" -> "l"
      [] c = "B" -> "b"
      [] OTHER -> c

ToLower(s) == [i \in 1..Len(s) |-> LowerChar(s[i])]

RECURSIVE TrimLeft(_)
TrimLeft(s) ==
    IF s # <<>> /\ Head(s) = " " THEN TrimLeft(Tail(s)) ELSE s

RECURSIVE TrimRight(_)
TrimRight(s) ==
    IF s # <<>> /\ s[Len(s)] = " " THEN TrimRight(SubSeq(s, 1, Len(s) - 1)) ELSE s

\* strings.TrimSpace
TrimSpace(s) == TrimRight(TrimLeft(s))

\* strings.Contains(h, n): n occurs in h as a contiguous substring
Contains(h, n) ==
    \E i \in 1..(Len(h) - Len(n) + 1) : SubSeq(h, i, i + Len(n) - 1) = n

----------------------------------------------------------------------------
(* Comment records *)

IdChars == <<"a", "b", "c", "d", "e">>

\* identifier of the i-th delivered record: identifiers are unique
IdOf(i) == <<IdChars[i]>>

\* author and body of a record
Profiles ==
    { [Author |-> <<"A", "l">>, Body |-> <<"x">>],
      [Author |-> <<"b">>,      Body |-> <<"L", "A">>] }

\* parent identifiers a record of an n-record list may carry: none, blank,
\* any record of the list (itself and later ones included), an unknown one,
\* and the first record's identifier with a leading blank
ParentChoices(n) ==
    {<<>>, <<"z">>, <<" ", "a">>} \cup {IdOf(j) : j \in 1..n}

Filters ==
    { <<>>, <<" ">>, <<" ", "a", "L">>, <<"L", "A", " ">>, <<"q">> }

Comment(i, p, pr, t) ==
    [ID |-> IdOf(i), ParentID |-> p, Author |-> pr.Author, Body |-> pr.Body,
     CreatedUTC |-> t]

----------------------------------------------------------------------------
(* buildCommentTree *)

\* filter pass test of one record (app.go:722-728)
Passes(c, filterLower) ==
    \/ filterLower = <<>>
    \/ Contains(ToLower(c.Author), filterLower)
    \/ Contains(ToLower(c.Body), filterLower)

\* first pass: the surviving records in input order (app.go:721-732)
RECURSIVE FilterPass(_, _)
FilterPass(cs, filterLower) ==
    IF cs = <<>> THEN <<>>
    ELSE IF Passes(Head(cs), filterLower)
         THEN <<Head(cs)>> \o FilterPass(Tail(cs), filterLower)
         ELSE FilterPass(Tail(cs), filterLower)

\* nodes[id]: the map keeps the last node stored under an identifier; 0 = absent
NodeOf(order, id) ==
    LET hits == {k \in 1..Len(order) : order[k].ID = id}
    IN IF hits = {} THEN 0 ELSE CHOOSE k \in hits : \A h \in hits : h <= k

\* a builder that puts the newest child first
AttachFront(kids, node) == <<node>> \o kids

\* a node joins its parent's children (app.go:746)
Attach(kids, node) == Append(kids, node)

\* the parent identifier looked up in the map (app.go:736)
ParentKey(c) == TrimSpace(c.ParentID)

\* a builder that drops a record whose parent is not in the map
RECURSIVE LinkPassDropsOrphans(_, _, _, _)
LinkPassDropsOrphans(order, k, roots, children) ==
    IF k > Len(order) THEN [order |-> order, roots |-> roots, children |-> children]
    ELSE LET parentID == ParentKey(order[k])
             parent == NodeOf(order, parentID)
         IN IF parentID = <<>>
            THEN LinkPassDropsOrphans(order, k + 1, Append(roots, k), children)
            ELSE IF parent = 0
            THEN LinkPassDropsOrphans(order, k + 1, roots, children)
            ELSE LinkPassDropsOrphans(order, k + 1, roots,
                                      [children EXCEPT ![parent] = Attach(@, k)])

\* second pass, from node k on (app.go:735-747)
RECURSIVE LinkPass(_, _, _, _)
LinkPass(order, k, roots, children) ==
    IF k > Len(order) THEN [order |-> order, roots |-> roots, children |-> children]
    ELSE LET parentID == ParentKey(order[k])
             parent == NodeOf(order, parentID)
         IN IF parentID = <<>> \/ parent = 0
            THEN LinkPass(order, k + 1, Append(roots, k), children)
            ELSE LinkPass(order, k + 1, roots,
                          [children EXCEPT ![parent] = Attach(@, k)])

\* buildCommentTree (app.go:717-749, tview_app.go:995-1027)
BuildCommentTree(cs, filterLower) ==
    LET order == FilterPass(cs, filterLower)
    IN LinkPass(order, 1, <<>>, [k \in 1..Len(order) |-> <<>>])

\* renderComments prepares the filter and builds the forest (app.go:641-643)
RenderForest(cs, filter) == BuildCommentTree(cs, ToLower(TrimSpace(filter)))

EmptyForest == [order |-> <<>>, roots |-> <<>>, children |-> <<>>]

\* a walk that lists a node after its replies
RECURSIVE WalkPost(_, _)
WalkPost(f, nodes) ==
    IF nodes = <<>> THEN <<>>
    ELSE WalkPost(f, f.children[Head(nodes)]) \o <<Head(nodes)>> \o WalkPost(f, Tail(nodes))

\* the walk of renderComments: nodes in depth-first pre-order (app.go:644-669)
RECURSIVE Walk(_, _)
Walk(f, nodes) ==
    IF nodes = <<>> THEN <<>>
    ELSE <<Head(nodes)>> \o Walk(f, f.children[Head(nodes)]) \o Walk(f, Tail(nodes))

Preorder(f) == Walk(f, f.roots)

----------------------------------------------------------------------------
(* renderComments and wrapWithPrefix (app.go:636-710, 751-790) *)

NL == "\n"

\* strings.Split(s, sep) for a one-character separator
RECURSIVE Split(_, _)
Split(s, sep) ==
    IF \E i \in 1..Len(s) : s[i] = sep
    THEN LET i == CHOOSE k \in 1..Len(s) : s[k] = sep /\ \A j \in 1..(k - 1) : s[j] # sep
         IN <<SubSeq(s, 1, i - 1)>> \o Split(SubSeq(s, i + 1, Len(s)), sep)
    ELSE <<s>>

\* ansiFields (app.go:785-790): strings.Fields of a paragraph, whose only
\* white space is the blank
RECURSIVE Fields(_)
Fields(s) ==
    LET t == TrimLeft(s)
    IN IF t = <<>> THEN <<>>
       ELSE LET word == Head(Split(t, " "))
            IN <<word>> \o Fields(SubSeq(t, Len(word) + 1, Len(t)))

\* a loop over words[1:] that forgets the blank when it measures the line
RECURSIVE WrapWordsTight(_, _, _, _)
WrapWordsTight(words, line, available, prefix) ==
    IF words = <<>> THEN <<prefix \o line>>
    ELSE IF Len(line) + Len(Head(words)) > available
         THEN <<prefix \o line>> \o WrapWordsTight(Tail(words), Head(words), available, prefix)
         ELSE WrapWordsTight(Tail(words), line \o <<" ">> \o Head(words), available, prefix)

\* the loop over words[1:] of wrapWithPrefix (app.go:698-705); lipgloss.Width
\* of unstyled text is its number of characters
RECURSIVE WrapWords(_, _, _, _)
WrapWords(words, line, available, prefix) ==
    IF words = <<>> THEN <<prefix \o line>>
    ELSE IF Len(line) + 1 + Len(Head(words)) > available
         THEN <<prefix \o line>> \o WrapWords(Tail(words), Head(words), available, prefix)
         ELSE WrapWords(Tail(words), line \o <<" ">> \o Head(words), available, prefix)

\* the loop over paragraphs of wrapWithPrefix (app.go:691-707)
RECURSIVE WrapParagraphs(_, _, _)
WrapParagraphs(paragraphs, available, prefix) ==
    IF paragraphs = <<>> THEN <<>>
    ELSE LET words == Fields(Head(paragraphs))
         IN (IF words = <<>> THEN <<prefix>>
             ELSE WrapWords(Tail(words), Head(words), available, prefix))
            \o WrapParagraphs(Tail(paragraphs), available, prefix)

\* wrapWithPrefix (app.go:681-710)
WrapWithPrefix(text, width, prefix) ==
    IF width <= 0 \/ width - Len(prefix) <= 0
    THEN <<prefix \o text>>
    ELSE WrapParagraphs(Split(text, NL), width - Len(prefix), prefix)

\* the columns headerPrefix and bodyPrefix write for the ancestors (app.go:753-759)
RECURSIVE Ancestors(_)
Ancestors(hasNext) ==
    IF hasNext = <<>> THEN <<>>
    ELSE (IF Head(hasNext) THEN <<"|", " ", " ">> ELSE <<" ", " ", " ">>)
         \o Ancestors(Tail(hasNext))

\* a header prefix that takes every node for one with a later sibling
HeaderPrefixBranch(hasNext, isLast) ==
    Ancestors(hasNext) \o <<"+", "-", " ">>

\* headerPrefix (app.go:751-767); a caret stands for the back quote of the
\* last sibling's corner
HeaderPrefix(hasNext, isLast) ==
    Ancestors(hasNext) \o (IF isLast THEN <<"^", "-", " ">> ELSE <<"+", "-", " ">>)

\* bodyPrefix (app.go:769-783)
BodyPrefix(hasNext, isLast) ==
    Ancestors(hasNext) \o (IF isLast THEN <<" ", " ", " ">> ELSE <<"|", " ", " ">>)

\* formatTimestamp (client.go:248-253): 19 characters, date and time of day
FormattedTime == <<"2", "0", "0", "6", "-", "0", "1", "-", "0", "2", " ",
                   "1", "5", ":", "0", "4", ":", "0", "5">>

\* formatHeader (app.go:673-679) without the colour codes, which take no
\* column; an asterisk stands for the bullet of the separator, the score is 1
FormatHeader(c) ==
    c.Author \o <<" ", "*", " ", "1", " ", "p", "o", "i", "n", "t", "s", " ", "*", " ">>
        \o FormattedTime

\* a walk that writes the siblings before the replies
RECURSIVE RenderBlocksSiblingsFirst(_, _, _, _, _)
RenderBlocksSiblingsFirst(f, nodes, k, hasNext, width) ==
    IF k > Len(nodes) THEN <<>>
    ELSE LET isLast == (k = Len(nodes))
             c == f.order[nodes[k]]
         IN <<[node |-> nodes[k],
               headerPrefix |-> HeaderPrefix(hasNext, isLast),
               bodyPrefix |-> BodyPrefix(hasNext, isLast),
               header |-> WrapWithPrefix(FormatHeader(c), width, HeaderPrefix(hasNext, isLast)),
               body |-> WrapWithPrefix(c.Body, width, BodyPrefix(hasNext, isLast))]>>
            \o RenderBlocksSiblingsFirst(f, nodes, k + 1, hasNext, width)
            \o RenderBlocksSiblingsFirst(f, f.children[nodes[k]], 1,
                                         Append(hasNext, ~isLast), width)

\* the walk of renderComments (app.go:644-669) over the nodes from the k-th
\* on: for every node it comes to, the prefixes it computes and the strings
\* wrapWithPrefix returns for the header and for the body
RECURSIVE RenderBlocks(_, _, _, _, _)
RenderBlocks(f, nodes, k, hasNext, width) ==
    IF k > Len(nodes) THEN <<>>
    ELSE LET isLast == (k = Len(nodes))
             c == f.order[nodes[k]]
         IN <<[node |-> nodes[k],
               headerPrefix |-> HeaderPrefix(hasNext, isLast),
               bodyPrefix |-> BodyPrefix(hasNext, isLast),
               header |-> WrapWithPrefix(FormatHeader(c), width, HeaderPrefix(hasNext, isLast)),
               body |-> WrapWithPrefix(c.Body, width, BodyPrefix(hasNext, isLast))]>>
            \o RenderBlocks(f, f.children[nodes[k]], 1, Append(hasNext, ~isLast), width)
            \o RenderBlocks(f, nodes, k + 1, hasNext, width)

\* what the walk writes for the blocks: the strings of the header, those of
\* the body and an empty one, each followed by a newline (app.go:654-665)
RECURSIVE WrittenFor(_)
WrittenFor(blocks) ==
    IF blocks = <<>> THEN <<>>
    ELSE Head(blocks).header \o Head(blocks).body \o << <<>> >> \o WrittenFor(Tail(blocks))

\* the walk of renderComments (app.go:644-669): the strings written for the
\* nodes from the k-th on, each node followed by an empty line
RenderNodes(f, nodes, k, hasNext, width) ==
    WrittenFor(RenderBlocks(f, nodes, k, hasNext, width))

\* the lines of a text in which every written string is followed by a newline
RECURSIVE LinesOf(_)
LinesOf(written) ==
    IF written = <<>> THEN <<>>
    ELSE Split(Head(written), NL) \o LinesOf(Tail(written))

\* renderComments (app.go:636-671): the text as the sequence of its lines; the
\* empty text has none
RenderComments(cs, width, filter) ==
    IF width <= 0 THEN <<>>
    ELSE LET f == RenderForest(cs, filter)
         IN LinesOf(RenderNodes(f, f.roots, 1, <<>>, width))

\* wrapText (tview_app.go:914-936), called for paragraphs that are not blank
RECURSIVE WrapTextWords(_, _, _)
WrapTextWords(words, currentLine, w) ==
    IF words = <<>> THEN <<currentLine>>
    ELSE IF Len(currentLine) + 1 + Len(Head(words)) <= w
         THEN WrapTextWords(Tail(words), currentLine \o <<" ">> \o Head(words), w)
         ELSE <<currentLine>> \o WrapTextWords(Tail(words), Head(words), w)

WrapText(text, w) ==
    IF w <= 0 THEN <<text>>
    ELSE LET words == Fields(text)
         IN IF words = <<>> THEN <<>>
            ELSE WrapTextWords(Tail(words), Head(words), w)

\* strings.Repeat("  ", depth) (tview_app.go:869)
RECURSIVE Indent(_)
Indent(depth) == IF depth = 0 THEN <<>> ELSE <<" ", " ">> \o Indent(depth - 1)

\* the body lines of TviewApp.renderComments for one comment (tview_app.go:880-901)
RECURSIVE TvBodyLines(_, _, _)
TvBodyLines(paragraphs, bodyIndent, bodyWidth) ==
    IF paragraphs = <<>> THEN <<>>
    ELSE (IF TrimSpace(Head(paragraphs)) = <<>>
          THEN << <<>> >>
          ELSE LET wrapped == WrapText(Head(paragraphs), bodyWidth)
               IN [k \in 1..Len(wrapped) |-> bodyIndent \o wrapped[k]])
         \o TvBodyLines(Tail(paragraphs), bodyIndent, bodyWidth)

\* the walk of TviewApp.renderComments (tview_app.go:866-908) without the
\* colour tags; the arrow of a reply is written as a greater-than sign
RECURSIVE TvRenderNodes(_, _, _, _, _)
TvRenderNodes(f, nodes, k, depth, w) ==
    IF k > Len(nodes) THEN <<>>
    ELSE LET c == f.order[nodes[k]]
             arrow == IF depth > 0 THEN <<">", " ">> ELSE <<>>
             bodyIndent == IF depth > 0 THEN Indent(depth + 1) ELSE <<>>
             room == w - Len(bodyIndent) - 2
             bodyWidth == IF room < 20 THEN 20 ELSE room
         IN <<Indent(depth) \o arrow \o FormatHeader(c)>>
            \o TvBodyLines(Split(c.Body, NL), bodyIndent, bodyWidth)
            \o << <<>> >>
            \o TvRenderNodes(f, f.children[nodes[k]], 1, depth + 1, w)
            \o TvRenderNodes(f, nodes, k + 1, depth, w)

\* TviewApp.renderComments (tview_app.go:854-911): the text written to the
\* comments view, for the inner width w of the view
TvRenderComments(cs, w, filter) ==
    LET f == RenderForest(cs, filter)
    IN TvRenderNodes(f, f.roots, 1, 0, IF w <= 0 THEN 80 ELSE w)

----------------------------------------------------------------------------
(* The comment list a session stores when a fetch result is applied *)

\* sort.Slice by CreatedUTC (tview_app.go:806-808): sort.Slice is not stable,
\* so every arrangement with nondecreasing CreatedUTC is a possible outcome
SortByCreated(cs) ==
    LET n == Len(cs)
        perms == {p \in [1..n -> 1..n] : \A i, j \in 1..n : i # j => p[i] # p[j]}
    IN { [i \in 1..n |-> cs[p[i]]] : p \in
           {q \in perms : \A i \in 1..(n - 1) :
                cs[q[i]].CreatedUTC <= cs[q[i + 1]].CreatedUTC} }

\* Model.Update, commentsLoadedMsg without error: m.comments = msg.comments,
\* then updateViewport renders them (app.go:194-195)
StoreModel ==
    /\ tphase = "fetched"
    /\ stored' = input
    /\ forest' = RenderForest(stored', filterText)
    /\ variant' = "model"
    /\ tphase' = "shown"
    /\ UNCHANGED <<input, filterText, renderWidth, rendered, search, found, menu, wrap,
                   modelVars, envVars, tviewVars>>

\* TviewApp.loadComments result callback: sort, store, render
\* (tview_app.go:805-810; the same in paneSelectThread 1427-1432)
StoreTview ==
    /\ tphase = "fetched"
    /\ stored' \in SortByCreated(input)
    /\ forest' = RenderForest(stored', filterText)
    /\ variant' = "tview"
    /\ tphase' = "shown"
    /\ UNCHANGED <<input, filterText, renderWidth, rendered, search, found, menu, wrap,
                   modelVars, envVars, tviewVars>>

----------------------------------------------------------------------------
(* Initial states *)

Nil == [id |-> "none", title |-> "none"]

\* NewModel (app.go:110-119): the zero value of every other field
ModelStart ==
    /\ mode = "menu"
    /\ currentThread = Nil
    /\ threadsData = <<>>
    /\ comments = <<>>
    /\ commentFilter = ""
    /\ filterActive = FALSE
    /\ status = ""
    /\ err = ""
    /\ userScrolled = FALSE
    /\ refreshEnabled = FALSE
    /\ loadingComments = FALSE
    /\ viewport = [YOffset |-> 0, lines |-> 1, Height |-> ViewHeight]

\* Model.Init returns no command (app.go:122-124): nothing is outstanding
EnvStart ==
    /\ fetches = [t \in {"A", "B"} |-> 0]
    /\ ticks = [live |-> 0, stopped |-> 0]
    /\ searches = 0
    /\ resolves = 0

\* no goroutine of the tview session runs and no update is queued
TvIdle ==
    [fetches |-> [t \in {"A", "B"} |-> 0], searches |-> 0,
     resolves |-> [blank |-> 0, text |-> 0], tickers |-> 0, queued |-> 0]

PaneIds == {"primary", "secondary"}

\* NewCommentPane (pane.go:33-56): the zero value of every field. shared says
\* that pane.thread is the very Thread ta.currentThread points to (splitView
\* copies the pointer); the field thread is then not used
NewCommentPane ==
    [thread |-> Nil, shared |-> FALSE, comments |-> <<>>, commentFilter |-> "",
     refreshEnabled |-> FALSE, showingMenu |-> FALSE, showingThreads |-> FALSE,
     threadsData |-> <<>>]

\* split mode off: primaryPane and secondaryPane are nil (tview_app.go:45-78).
\* panes holds the ids of the pane pointers that are not nil; pane holds the
\* panes themselves and, once they are dropped, what their goroutines still
\* point to; splits counts the calls of splitView that took effect
SplitOff ==
    [splitMode |-> FALSE, activePaneID |-> "", panes |-> {},
     pane |-> [p \in PaneIds |-> NewCommentPane], splits |-> 0]

\* no goroutine works for a pane: searches (paneSelectMenuItem), sel
\* (paneSelectThread), ref (loadCommentsForPane) and tickers
\* (startAutoRefreshForPane) count the goroutines per pane
PaneIdle ==
    [searches |-> [p \in PaneIds |-> 0],
     sel |-> [p \in PaneIds |-> [t \in {"A", "B"} |-> 0]],
     ref |-> [p \in PaneIds |-> [t \in {"A", "B"} |-> 0]],
     tickers |-> [p \in PaneIds |-> 0]]

\* NewTviewApp and setupUI (tview_app.go:80-168): the menu page is shown,
\* showMenu wrote the key hints to the status bar
TviewStart ==
    /\ ta = [page |-> "menu", statusBar |-> "keys", threadsData |-> <<>>,
             currentThread |-> Nil, aliased |-> FALSE, comments |-> <<>>,
             commentFilter |-> "", filterActive |-> FALSE, refreshEnabled |-> FALSE,
             atEnd |-> TRUE]
    /\ rt = TvIdle
    /\ sp = SplitOff
    /\ prt = PaneIdle

----------------------------------------------------------------------------
(* Client.FindThreads (client.go:68-131) and ThreadQuery (reddit package) *)

\* nowUTC, in seconds
NowUTC == 7200

\* ThreadQuery.WithinAge
WithinAge(q, createdUTC) ==
    \/ q.MaxAgeHours = 0
    \/ createdUTC >= NowUTC - q.MaxAgeHours * 3600

\* ThreadQuery.TitleMatches
TitleMatches(q, title) ==
    LET lower == ToLower(title)
    IN /\ \A i \in 1..Len(q.TitleMustContain) :
             Contains(lower, ToLower(q.TitleMustContain[i]))
       /\ \A i \in 1..Len(q.TitleMustNotContain) :
             ~Contains(lower, ToLower(q.TitleMustNotContain[i]))

\* the loop over listing.Data.Children (client.go:102-123): the threads the
\* children of one listing add, in the listing's order
RECURSIVE ThreadsOf(_, _)
ThreadsOf(q, children) ==
    IF children = <<>> THEN <<>>
    ELSE LET post == Head(children)
         IN (IF post.Kind = "t3" /\ post.Decodes
                  /\ WithinAge(q, post.CreatedUTC) /\ TitleMatches(q, post.Title)
             THEN <<[ID |-> post.ID, Title |-> post.Title]>>
             ELSE <<>>)
            \o ThreadsOf(q, Tail(children))

\* a loop over the phrases that goes on after a phrase has added threads
RECURSIVE FindFromAll(_, _, _, _)
FindFromAll(q, responses, k, threads) ==
    IF k > Len(q.Flairs)
    THEN [threads |-> threads, err |-> FALSE, queried |-> k - 1]
    ELSE IF responses[k].err
         THEN [threads |-> <<>>, err |-> TRUE, queried |-> k]
         ELSE FindFromAll(q, responses, k + 1,
                          threads \o ThreadsOf(q, responses[k].children))

\* the loop over cfg.Flairs (client.go:71-128) from the k-th phrase on:
\* responses[k] is the answer to the request for the k-th phrase; queried is
\* the number of requests made
RECURSIVE FindFrom(_, _, _, _)
FindFrom(q, responses, k, threads) ==
    IF k > Len(q.Flairs)
    THEN [threads |-> threads, err |-> FALSE, queried |-> k - 1]
    ELSE IF responses[k].err
         THEN [threads |-> <<>>, err |-> TRUE, queried |-> k]
         ELSE LET ts == threads \o ThreadsOf(q, responses[k].children)
              IN IF Len(ts) > 0
                 THEN [threads |-> ts, err |-> FALSE, queried |-> k]
                 ELSE FindFrom(q, responses, k + 1, ts)

\* Client.FindThreads (client.go:68-131)
FindThreads(q, responses) == FindFrom(q, responses, 1, <<>>)

\* before FindThreads has run
NotSearched == [threads |-> <<>>, err |-> FALSE, queried |-> -1]

\* no thread search under way
SearchIdle ==
    /\ search = [query |-> [Flairs |-> <<>>, MaxAgeHours |-> 0,
                            TitleMustContain |-> <<>>, TitleMustNotContain |-> <<>>],
                 responses |-> <<>>]
    /\ found = NotSearched

(* The menu selection of the tview session and of a pane
   (tview_app.go:107-111, 213-245, 1302-1335; pane.go:33-56) *)

\* setupUI: the first index that is not a separator, the length of the list
\* when there is none (tview_app.go:107-111)
RECURSIVE SkipSeparators(_, _)
SkipSeparators(items, i) ==
    IF i < Len(items) /\ items[i + 1] = "separator"
    THEN SkipSeparators(items, i + 1)
    ELSE i

\* one pass of the loop of menuUp and paneMenuUp: the index it moves to
\* (tview_app.go:216-219, 1305-1308)
IndexUp(items, i) == IF i - 1 < 0 THEN Len(items) - 1 ELSE i - 1

\* one pass of the loop of menuDown and paneMenuDown (tview_app.go:233-236, 1323-1326)
IndexDown(items, i) == IF i + 1 >= Len(items) THEN 0 ELSE i + 1

\* the two breaks of the loops (tview_app.go:220-225)
LoopBreaks(items, i, orig) == i = orig \/ items[i + 1] # "separator"

\* no menu under consideration
MenuIdle ==
    menu = [menuItems |-> <<>>, menuIndex |-> 0, splitMode |-> FALSE,
            paneMenuIndex |-> 0, pc |-> "idle", orig |-> 0, pass |-> 0]

\* wrapWithPrefix not called
WrapIdle ==
    wrap = [text |-> <<>>, width |-> 0, prefix |-> <<>>, lines |-> <<>>, done |-> FALSE]

TreeIdle ==
    /\ input = <<>>
    /\ filterText = <<>>
    /\ stored = <<>>
    /\ forest = EmptyForest
    /\ tphase = "idle"
    /\ variant = "none"
    /\ renderWidth = 0
    /\ rendered = <<>>
    /\ SearchIdle /\ MenuIdle /\ WrapIdle

\* delivered lists for the tree builder: every parent shape, both profiles
InitTree ==
    /\ \E n \in 0..MaxComments :
         \E ps \in [1..n -> ParentChoices(n)], prs \in [1..n -> Profiles] :
            input = [i \in 1..n |-> Comment(i, ps[i], prs[i], 1)]
    /\ filterText \in Filters
    /\ stored = <<>>
    /\ forest = EmptyForest
    /\ tphase = "fetched"
    /\ variant = "none"
    /\ renderWidth = 0
    /\ rendered = <<>>
    /\ SearchIdle /\ MenuIdle /\ WrapIdle
    /\ ModelStart /\ EnvStart /\ TviewStart

\* delivered lists for the ordering: every creation order, parents inside the list
InitOrder ==
    /\ \E n \in 0..MaxComments :
         \E ps \in [1..n -> {<<>>} \cup {IdOf(j) : j \in 1..n}],
            ts \in [1..n -> 1..MaxStamp] :
            input = [i \in 1..n |-> Comment(i, ps[i], CHOOSE pr \in Profiles : TRUE, ts[i])]
    /\ filterText = <<>>
    /\ stored = <<>>
    /\ forest = EmptyForest
    /\ tphase = "fetched"
    /\ variant = "none"
    /\ renderWidth = 0
    /\ rendered = <<>>
    /\ SearchIdle /\ MenuIdle /\ WrapIdle
    /\ ModelStart /\ EnvStart /\ TviewStart

NextTree == StoreModel

NextOrder == StoreModel \/ StoreTview

\* buildCommentTree as a function of its inputs
SpecTree == InitTree /\ [][NextTree]_vars

\* the stored list and the forest built from it, in both sessions
SpecOrder == InitOrder /\ [][NextOrder]_vars

\* bodies handed to the renderer: empty, one word, two words, two paragraphs
\* with an empty one between them, one long word
RenderBodies ==
    { <<>>, <<"x">>, <<"a", "b", " ", "c", "d">>, <<"a", NL, NL, "b">>,
      <<"a", "b", "c", "d", "e", "f", "g", "h", "i">> }

\* filters handed to the renderer: none, blank, one that occurs in no record,
\* one that occurs in a body
RenderFilters == { <<>>, <<" ">>, <<"q">>, <<"x">> }

\* comment lists, filters and widths for the renderer: roots and replies,
\* widths from below zero up to MaxWidth
InitRender ==
    /\ \E n \in 0..MaxRendered :
         \E ps \in [1..n -> {<<>>, IdOf(1)}], bs \in [1..n -> RenderBodies] :
            input = [i \in 1..n |->
                       Comment(i, ps[i], [Author |-> <<"A", "l">>, Body |-> bs[i]], 1)]
    /\ filterText \in RenderFilters
    /\ renderWidth \in (-1)..MaxWidth
    /\ rendered = <<>>
    /\ SearchIdle /\ MenuIdle /\ WrapIdle
    /\ stored = <<>>
    /\ forest = EmptyForest
    /\ tphase = "fetched"
    /\ variant = "none"
    /\ ModelStart /\ EnvStart /\ TviewStart

\* updateViewport calls renderComments on the stored list (app.go:478)
Render ==
    /\ tphase = "fetched"
    /\ stored' = input
    /\ forest' = RenderForest(input, filterText)
    /\ rendered' = RenderComments(input, renderWidth, filterText)
    /\ tphase' = "rendered"
    /\ variant' = "model"
    /\ UNCHANGED <<input, filterText, renderWidth, search, found, menu, wrap,
                   modelVars, envVars, tviewVars>>

\* TviewApp.renderComments on the stored list, the inner width of the comments
\* view being renderWidth (tview_app.go:854-911)
RenderTview ==
    /\ tphase = "fetched"
    /\ stored' = input
    /\ forest' = RenderForest(input, filterText)
    /\ rendered' = TvRenderComments(input, renderWidth, filterText)
    /\ tphase' = "rendered"
    /\ variant' = "tview"
    /\ UNCHANGED <<input, filterText, renderWidth, search, found, menu, wrap,
                   modelVars, envVars, tviewVars>>

NextRender == Render \/ RenderTview

\* renderComments as a function of its inputs
SpecRender == InitRender /\ [][NextRender]_vars

\* bodies of the comments of a walk: one word, and two paragraphs
WalkBodies == { <<"x">>, <<"a", " ", "b", NL, "c">> }

\* widths of a walk: none, one that leaves no room below the second level,
\* one that has room for every body
WalkWidths == {0, 9, 45}

\* comment lists of up to MaxNodes records whose parents are any records of
\* the list, with or without a filter that drops the two-paragraph bodies
InitWalk ==
    /\ \E n \in 0..MaxNodes :
         \E ps \in [1..n -> {<<>>} \cup {IdOf(j) : j \in 1..n}],
            bs \in [1..n -> WalkBodies] :
            input = [i \in 1..n |->
                       Comment(i, ps[i], [Author |-> <<"A", "l">>, Body |-> bs[i]], 1)]
    /\ filterText \in {<<>>, <<"x">>}
    /\ renderWidth \in WalkWidths
    /\ rendered = <<>>
    /\ SearchIdle /\ MenuIdle /\ WrapIdle
    /\ stored = <<>>
    /\ forest = EmptyForest
    /\ tphase = "fetched"
    /\ variant = "none"
    /\ ModelStart /\ EnvStart /\ TviewStart

\* renderComments on forests of several levels
SpecWalk == InitWalk /\ [][NextRender]_vars

\* texts handed to wrapWithPrefix: up to MaxText characters, among them
\* blanks and newlines
RECURSIVE WrapTexts(_)
WrapTexts(n) ==
    IF n = 0 THEN {<<>>}
    ELSE LET shorter == WrapTexts(n - 1)
         IN shorter \cup {Append(t, ch) : t \in {s \in shorter : Len(s) = n - 1},
                                          ch \in {"a", "b", " ", NL}}

\* the prefixes of a root's header and of the body of a last reply
WrapPrefixes == {HeaderPrefix(<<>>, FALSE), BodyPrefix(<<TRUE>>, TRUE)}

InitWrap ==
    /\ \E t \in WrapTexts(MaxText), w \in (-1)..MaxWidth, p \in WrapPrefixes :
         wrap = [text |-> t, width |-> w, prefix |-> p, lines |-> <<>>, done |-> FALSE]
    /\ input = <<>> /\ filterText = <<>> /\ stored = <<>> /\ forest = EmptyForest
    /\ tphase = "idle" /\ variant = "none" /\ renderWidth = 0 /\ rendered = <<>>
    /\ SearchIdle /\ MenuIdle
    /\ ModelStart /\ EnvStart /\ TviewStart

\* renderComments calls wrapWithPrefix on a header or a body (app.go:659-664)
Wrap ==
    /\ ~wrap.done
    /\ wrap' = [wrap EXCEPT !.lines = WrapWithPrefix(wrap.text, wrap.width, wrap.prefix),
                            !.done = TRUE]
    /\ UNCHANGED <<input, filterText, stored, forest, tphase, variant, renderWidth,
                   rendered, search, found, menu, modelVars, envVars, tviewVars>>

NextWrap == Wrap

\* wrapWithPrefix as a function of its inputs
SpecWrap == InitWrap /\ [][NextWrap]_vars

\* the queries handed to FindThreads, up to the flair phrases: one with an age
\* limit, a phrase the title must hold and one it must not hold, one without
\* any constraint
Queries ==
    { [MaxAgeHours |-> 1, TitleMustContain |-> << <<"L">> >>,
       TitleMustNotContain |-> << <<"x">> >>],
      [MaxAgeHours |-> 0, TitleMustContain |-> <<>>, TitleMustNotContain |-> <<>>] }

FlairNames == <<"f1", "f2", "f3", "f4">>

\* the children a listing may hold: a post that meets the constraints, one
\* that is too old, one whose title lacks the phrase, one whose title has the
\* forbidden phrase, a post that does not decode, a comment
ChildShapes ==
    { [Kind |-> "t3", Decodes |-> TRUE,  Title |-> <<"L", "A">>,      CreatedUTC |-> 4000],
      [Kind |-> "t3", Decodes |-> TRUE,  Title |-> <<"L", "A">>,      CreatedUTC |-> 3000],
      [Kind |-> "t3", Decodes |-> TRUE,  Title |-> <<"b">>,           CreatedUTC |-> 4000],
      [Kind |-> "t3", Decodes |-> TRUE,  Title |-> <<"L", "A", "x">>, CreatedUTC |-> 4000],
      [Kind |-> "t3", Decodes |-> FALSE, Title |-> <<"L", "A">>,      CreatedUTC |-> 4000],
      [Kind |-> "t1", Decodes |-> TRUE,  Title |-> <<"L", "A">>,      CreatedUTC |-> 4000] }

\* the j-th child of the listing returned for the k-th phrase
Child(k, j, shape) ==
    [Kind |-> shape.Kind, Decodes |-> shape.Decodes, ID |-> <<k, j>>,
     Title |-> shape.Title, CreatedUTC |-> shape.CreatedUTC]

\* queries with up to MaxFlairs phrases, and for every phrase the answer the
\* server would give: a failure or a listing of up to MaxPosts children
InitFind ==
    /\ \E n \in 0..MaxFlairs, q \in Queries :
         \E fails \in [1..n -> BOOLEAN], sizes \in [1..n -> 0..MaxPosts] :
           \E shapes \in [1..n -> [1..MaxPosts -> ChildShapes]] :
              search = [query |-> [Flairs |-> SubSeq(FlairNames, 1, n),
                                   MaxAgeHours |-> q.MaxAgeHours,
                                   TitleMustContain |-> q.TitleMustContain,
                                   TitleMustNotContain |-> q.TitleMustNotContain],
                        responses |-> [k \in 1..n |->
                            [err |-> fails[k],
                             children |-> IF fails[k] THEN <<>>
                                          ELSE [j \in 1..sizes[k] |->
                                                  Child(k, j, shapes[k][j])]]]]
    /\ found = NotSearched /\ MenuIdle /\ WrapIdle
    /\ input = <<>> /\ filterText = <<>> /\ stored = <<>> /\ forest = EmptyForest
    /\ tphase = "idle" /\ variant = "none" /\ renderWidth = 0 /\ rendered = <<>>
    /\ ModelStart /\ EnvStart /\ TviewStart

\* fetchThreadsCmd runs FindThreads (app.go:607-610)
Find ==
    /\ found = NotSearched
    /\ found' = FindThreads(search.query, search.responses)
    /\ UNCHANGED <<search, menu, wrap, input, filterText, stored, forest, tphase, variant,
                   renderWidth, rendered, modelVars, envVars, tviewVars>>

NextFind == Find

\* FindThreads as a function of the query and the server's answers
SpecFind == InitFind /\ [][NextFind]_vars

----------------------------------------------------------------------------
(* Claims about the forest *)

\* the filter test in the words of the specification: the trimmed, lower-cased
\* filter is empty or occurs in the lower-cased author or body
FilterMatches(c, f) ==
    LET fl == ToLower(TrimSpace(f))
    IN fl = <<>> \/ Contains(ToLower(c.Author), fl) \/ Contains(ToLower(c.Body), fl)

\* positions of the stored records that pass the filter
Surviving == {i \in 1..Len(stored) : FilterMatches(stored[i], filterText)}

\* the records met by walking the forest from its roots
ForestRecords ==
    LET p == Preorder(forest) IN {forest.order[p[k]] : k \in 1..Len(p)}

RootCount(c) ==
    Cardinality({k \in 1..Len(forest.roots) : forest.order[forest.roots[k]] = c})

IsChild(c) ==
    \E j \in DOMAIN forest.children :
        \E k \in 1..Len(forest.children[j]) : forest.order[forest.children[j][k]] = c

\* C7: the nodes reachable from the roots are exactly the records that pass
\* the filter, each exactly once (for unique identifiers, self-referential and
\* forward-referencing parents included).
CX_C7 ==
    tphase = "shown" =>
        LET p == Preorder(forest)
        IN /\ \A i, j \in 1..Len(p) : i # j => forest.order[p[i]].ID # forest.order[p[j]].ID
           /\ ForestRecords = {stored[i] : i \in Surviving}

\* the parent identifier as written resolves to no surviving record
OrphanRaw(c) ==
    c.ParentID = <<>> \/ ~ \E j \in Surviving : stored[j].ID = c.ParentID

\* the parent identifier, surrounding blanks removed, resolves to no surviving record
OrphanTrimmed(c) ==
    TrimSpace(c.ParentID) = <<>> \/ ~ \E j \in Surviving : stored[j].ID = TrimSpace(c.ParentID)

\* C8 as stated: every surviving record whose parent identifier is empty or is
\* not the identifier of a surviving record is a root, never dropped, never a child.
CX_C8 ==
    tphase = "shown" =>
        \A i \in Surviving :
            OrphanRaw(stored[i]) => RootCount(stored[i]) = 1 /\ ~IsChild(stored[i])

\* C8 amended: every surviving record whose parent identifier, after trimming
\* surrounding whitespace, is empty or is not the identifier of a surviving
\* record is a root exactly once and is the child of no node.
Thm_C8 ==
    tphase = "shown" =>
        \A i \in Surviving :
            OrphanTrimmed(stored[i]) => RootCount(stored[i]) = 1 /\ ~IsChild(stored[i])

\* a built forest in which a surviving record's parent was filtered out and
\* another one names an unknown parent; both are roots
Wit_C8 ==
    /\ tphase = "shown"
    /\ \E i \in Surviving :
          /\ \E j \in 1..Len(stored) : j \notin Surviving /\ stored[j].ID = stored[i].ParentID
          /\ RootCount(stored[i]) = 1
    /\ \E i \in Surviving : stored[i].ParentID = <<"z">> /\ RootCount(stored[i]) = 1

\* C9: a record is a node of the forest iff it matches the filter; a record
\* that does not match is nowhere in the forest, and its matching children are roots.
CX_C9 ==
    tphase = "shown" =>
        /\ \A i \in 1..Len(stored) :
              (stored[i] \in ForestRecords) <=> FilterMatches(stored[i], filterText)
        /\ \A i \in Surviving :
              (\E j \in 1..Len(stored) :
                   j \notin Surviving /\ stored[j].ID = TrimSpace(stored[i].ParentID))
              => RootCount(stored[i]) = 1

PosIn(seq, id) == CHOOSE i \in 1..Len(seq) : seq[i].ID = id

\* the nodes listed in ns stand in the order their records have in ref
Ordered(ns, ref) ==
    \A a, b \in 1..Len(ns) :
        a < b => PosIn(ref, forest.order[ns[a]].ID) < PosIn(ref, forest.order[ns[b]].ID)

ForestFollows(ref) ==
    /\ Ordered(forest.roots, ref)
    /\ \A k \in DOMAIN forest.children : Ordered(forest.children[k], ref)

InputOrder == [i \in 1..Len(forest.order) |-> i]

\* node a is the parent of node b
ParentOf(a, b) == \E k \in 1..Len(forest.children[a]) : forest.children[a][k] = b

IsRootNode(b) == \E k \in 1..Len(forest.roots) : forest.roots[k] = b

\* two nodes with the same parent, or two roots
Siblings(a, b) ==
    \/ IsRootNode(a) /\ IsRootNode(b)
    \/ \E q \in DOMAIN forest.children : ParentOf(q, a) /\ ParentOf(q, b)

\* C11 as stated: the depth-first pre-order walk visits the surviving records
\* in exactly their input order (checked where the walk reaches every surviving
\* record, so that the defect of C7 plays no part).
CX_C11 ==
    (tphase = "shown" /\ Len(Preorder(forest)) = Len(forest.order))
        => Preorder(forest) = InputOrder

\* C11 amended: in the pre-order walk siblings come in input order, every reply
\* comes after the node it replies to, and when no record is a reply the walk
\* is the input order of the surviving records.
Thm_C11 ==
    tphase = "shown" =>
        LET p == Preorder(forest)
        IN /\ \A i, j \in 1..Len(p) : (i < j /\ Siblings(p[i], p[j])) => p[i] < p[j]
           /\ \A j \in 1..Len(p) :
                 IsRootNode(p[j]) \/ \E i \in 1..(j - 1) : ParentOf(p[i], p[j])
           /\ (\A k \in 1..Len(forest.order) : IsRootNode(k)) => p = InputOrder

\* a reply delivered before the record it replies to, and later than another
\* root: the walk reaches all three records and is not the input order
Wit_C11 ==
    /\ tphase = "shown"
    /\ Len(forest.order) = 3
    /\ Len(Preorder(forest)) = 3
    /\ Preorder(forest) # InputOrder
    /\ \E a, b \in 1..3 : b < a /\ ParentOf(a, b)

----------------------------------------------------------------------------
(* The bubbletea session: Model.Update and its key handlers (app.go) *)

ThreadIds == {"A", "B"}

\* the threads a search returns, with the titles of the listing
Listing == <<[id |-> "A", title |-> "a"], [id |-> "B", title |-> "b"]>>

\* the authoritative title FetchComments returns for a thread
TitleOf(t) == IF t = "A" THEN "TA" ELSE "TB"

\* the comment lists FetchComments may return for a thread
ListsOf(t) == {<<>>, <<[of |-> t]>>}

MenuItemTypes == {"separator", "url_input", "search"}

UrlTexts == {<<>>, <<" ">>, <<"u">>}

Outstanding == fetches["A"] + fetches["B"]

PendingTicks == ticks.live + ticks.stopped

\* all commands the runtime is still running for the session
Tasks == Outstanding + PendingTicks + searches + resolves

\* the filter texts typed in a session: "x" occurs in every loaded comment,
\* "q" in none of them
FilterTexts == {"x", "q"}

\* the loaded comments that pass the session's filter (app.go:641-643)
Shown(cs, f) == IF f = "q" THEN <<>> ELSE cs

\* renderComments writes for every node a header line, a body line and a blank
\* line, each ended by a newline (app.go:651-662); SetContent splits the text
\* at newlines
ContentLines(cs, f) == 3 * Len(Shown(cs, f)) + 1

\* viewport.Model of the bubbles library, as used by Model
MaxYOffset(vp) == IF vp.lines > vp.Height THEN vp.lines - vp.Height ELSE 0

AtBottom(vp) == vp.YOffset >= MaxYOffset(vp)

AtTop(vp) == vp.YOffset <= 0

SetYOffset(vp, n) ==
    [vp EXCEPT !.YOffset = IF n < 0 THEN 0
                           ELSE IF n > MaxYOffset(vp) THEN MaxYOffset(vp) ELSE n]

GotoBottom(vp) == SetYOffset(vp, MaxYOffset(vp))

SetContent(vp, n) ==
    LET w == [vp EXCEPT !.lines = n]
    IN IF w.YOffset > n - 1 THEN GotoBottom(w) ELSE w

LineUp(vp) == IF AtTop(vp) THEN vp ELSE SetYOffset(vp, vp.YOffset - 1)

LineDown(vp) == IF AtBottom(vp) THEN vp ELSE SetYOffset(vp, vp.YOffset + 1)

ViewUp(vp) == IF AtTop(vp) THEN vp ELSE SetYOffset(vp, vp.YOffset - vp.Height)

ViewDown(vp) == IF AtBottom(vp) THEN vp ELSE SetYOffset(vp, vp.YOffset + vp.Height)

\* Model.updateViewport (app.go:474-480), the width being positive
UpdateViewport(vp, cs, f) == SetContent(vp, ContentLines(cs, f))

\* Model.resize in CommentView (app.go:456-471): one row goes to the filter input
Resize(vp, active, cs, f) ==
    UpdateViewport([vp EXCEPT !.Height = IF active THEN ViewHeight - 1 ELSE ViewHeight],
                   cs, f)

\* fetchCommentsCmd (app.go:613-621): no command for a nil thread
FetchCommentsCmd(thread) ==
    IF thread = Nil
    THEN fetches' = fetches
    ELSE /\ Outstanding < MaxFetches
         /\ fetches' = [fetches EXCEPT ![thread.id] = @ + 1]

\* refreshTickCmd (app.go:630-634) for a scheduler that starts
StartTicks ==
    /\ PendingTicks < MaxTicks
    /\ ticks' = [ticks EXCEPT !.live = @ + 1]

\* the chains pending when refresh is switched off belong to a stopped scheduler
StopTicks == ticks' = [live |-> 0, stopped |-> ticks.stopped + ticks.live]

\* handleKey, modeMenu, enter (app.go:284-303)
KeyMenuEnter ==
    /\ mode = "menu"
    /\ \E item \in MenuItemTypes :
         /\ CASE item = "separator" ->
                   UNCHANGED <<modelVars, searches>>
              [] item = "url_input" ->
                   /\ mode' = "url"
                   /\ UNCHANGED <<currentThread, threadsData, comments, commentFilter,
                                  filterActive, status, err, userScrolled, refreshEnabled,
                                  loadingComments, searches>>
              [] OTHER ->
                   /\ searches < MaxSearches
                   /\ status' = "loading-threads"
                   /\ err' = ""
                   /\ searches' = searches + 1
                   /\ UNCHANGED <<mode, currentThread, threadsData, comments, commentFilter,
                                  filterActive, userScrolled, refreshEnabled, loadingComments>>
    /\ UNCHANGED <<fetches, ticks, resolves, treeVars, tviewVars>>
    /\ UNCHANGED viewport
    /\ Tasks' <= MaxTasks

\* Update, threadsLoadedMsg (app.go:169-186)
ThreadsLoaded ==
    /\ searches > 0
    /\ searches' = searches - 1
    /\ status' = ""
    /\ \E outcome \in {"error", "empty", "found"} :
         /\ CASE outcome = "error" ->
                   /\ err' = "error"
                   /\ UNCHANGED <<mode, threadsData>>
              [] outcome = "empty" ->
                   /\ err' = "no-threads"
                   /\ mode' = "menu"
                   /\ UNCHANGED threadsData
              [] OTHER ->
                   /\ err' = ""
                   /\ threadsData' = Listing
                   /\ mode' = "threads"
    /\ UNCHANGED <<currentThread, comments, commentFilter, filterActive, userScrolled,
                   refreshEnabled, loadingComments, fetches, ticks, resolves, treeVars, tviewVars>>
    /\ UNCHANGED viewport

\* handleKey, modeThreadList, enter (app.go:306-321)
KeyThreadsEnter ==
    /\ mode = "threads"
    /\ IF threadsData = <<>>
       THEN UNCHANGED <<modelVars, fetches, ticks>>
       ELSE \E i \in 1..Len(threadsData) :
             /\ currentThread' = threadsData[i]
             /\ mode' = "comments"
             /\ refreshEnabled' = TRUE
             /\ userScrolled' = FALSE
             /\ loadingComments' = TRUE
             /\ commentFilter' = ""
             /\ filterActive' = FALSE
             /\ viewport' = UpdateViewport(viewport, comments, "")
             /\ FetchCommentsCmd(currentThread')
             /\ StartTicks
             /\ UNCHANGED <<threadsData, comments, status, err>>
    /\ UNCHANGED <<searches, resolves, treeVars, tviewVars>>
    /\ Tasks' <= MaxTasks

\* handleKey, modeThreadList, backspace / esc (app.go:322-329)
KeyThreadsBack ==
    /\ mode = "threads"
    /\ mode' = "menu"
    /\ UNCHANGED <<currentThread, threadsData, comments, commentFilter, filterActive,
                   status, err, userScrolled, refreshEnabled, loadingComments,
                   fetches, ticks, searches, resolves, treeVars, tviewVars>>
    /\ UNCHANGED viewport

\* handleKey, modeURLInput, enter (app.go:335-343)
KeyUrlEnter ==
    /\ mode = "url"
    /\ \E text \in UrlTexts :
         IF TrimSpace(text) = <<>>
         THEN /\ mode' = "menu"
              /\ UNCHANGED <<status, err, resolves>>
         ELSE /\ resolves < MaxResolves
              /\ status' = "loading-thread"
              /\ err' = ""
              /\ resolves' = resolves + 1
              /\ UNCHANGED mode
    /\ UNCHANGED <<currentThread, threadsData, comments, commentFilter, filterActive,
                   userScrolled, refreshEnabled, loadingComments,
                   fetches, ticks, searches, treeVars, tviewVars>>
    /\ UNCHANGED viewport
    /\ Tasks' <= MaxTasks

\* handleKey, modeURLInput, esc (app.go:344-346)
KeyUrlEsc ==
    /\ mode = "url"
    /\ mode' = "menu"
    /\ UNCHANGED <<currentThread, threadsData, comments, commentFilter, filterActive,
                   status, err, userScrolled, refreshEnabled, loadingComments,
                   fetches, ticks, searches, resolves, treeVars, tviewVars>>
    /\ UNCHANGED viewport

\* Update, urlThreadMsg (app.go:208-221)
UrlThread ==
    /\ resolves > 0
    /\ resolves' = resolves - 1
    /\ status' = ""
    /\ \/ /\ err' = "error"
          /\ mode' = "menu"
          /\ UNCHANGED <<currentThread, refreshEnabled, userScrolled, loadingComments,
                         fetches, ticks>>
       \/ \E t \in ThreadIds :
          /\ err' = ""
          /\ currentThread' = [id |-> t, title |-> TitleOf(t)]
          /\ mode' = "comments"
          /\ refreshEnabled' = TRUE
          /\ userScrolled' = FALSE
          /\ loadingComments' = TRUE
          /\ FetchCommentsCmd(currentThread')
          /\ StartTicks
    /\ UNCHANGED <<threadsData, comments, commentFilter, filterActive, searches, treeVars, tviewVars>>
    /\ UNCHANGED viewport
    /\ Tasks' <= MaxTasks

\* handleCommentsKeys, filter editing: esc, and enter on a blank filter
\* (app.go:354-371)
KeyFilterClose ==
    /\ mode = "comments"
    /\ filterActive
    /\ filterActive' = FALSE
    /\ commentFilter' = ""
    /\ viewport' = UpdateViewport(viewport, comments, "")
    /\ UNCHANGED <<mode, currentThread, threadsData, comments, status, err, userScrolled,
                   refreshEnabled, loadingComments, envVars, treeVars, tviewVars>>

\* filter editing that re-renders and then asks for the thread's comments
KeyFilterTypeFetch ==
    /\ mode = "comments"
    /\ filterActive
    /\ commentFilter' \in FilterTexts
    /\ viewport' = UpdateViewport(viewport, comments, commentFilter')
    /\ IF currentThread # Nil
       THEN FetchCommentsCmd(currentThread)
       ELSE UNCHANGED fetches
    /\ UNCHANGED <<mode, currentThread, threadsData, comments, filterActive, status, err,
                   userScrolled, refreshEnabled, loadingComments, ticks, searches, resolves,
                   treeVars, tviewVars>>
    /\ Tasks' <= MaxTasks

\* Update, modeComments with the filter active: a key no handler took goes to
\* the filter input (app.go:230-235)
KeyFilterType ==
    /\ mode = "comments"
    /\ filterActive
    /\ commentFilter' \in FilterTexts
    /\ viewport' = UpdateViewport(viewport, comments, commentFilter')
    /\ UNCHANGED <<mode, currentThread, threadsData, comments, filterActive, status, err,
                   userScrolled, refreshEnabled, loadingComments, envVars, treeVars, tviewVars>>

\* handleCommentsKeys, "r" (app.go:374-378)
KeyRefresh ==
    /\ mode = "comments"
    /\ IF currentThread # Nil
       THEN /\ loadingComments' = TRUE
            /\ FetchCommentsCmd(currentThread)
       ELSE UNCHANGED <<loadingComments, fetches>>
    /\ UNCHANGED <<mode, currentThread, threadsData, comments, commentFilter, filterActive,
                   status, err, userScrolled, refreshEnabled, ticks, searches, resolves,
                   treeVars, tviewVars>>
    /\ UNCHANGED viewport
    /\ Tasks' <= MaxTasks

\* handleCommentsKeys, "esc" with the filter closed (app.go:379-383)
KeyEsc ==
    /\ mode = "comments"
    /\ ~filterActive
    /\ mode' = "menu"
    /\ currentThread' = Nil
    /\ refreshEnabled' = FALSE
    /\ StopTicks
    /\ UNCHANGED <<threadsData, comments, commentFilter, filterActive, status, err,
                   userScrolled, loadingComments, fetches, searches, resolves, treeVars, tviewVars>>
    /\ UNCHANGED viewport

\* handleCommentsKeys, "backspace" (app.go:384-391); with the filter active the
\* key is left to the filter input, which deletes a character (app.go:230-235)
KeyBackspace ==
    /\ mode = "comments"
    /\ IF filterActive
       THEN /\ commentFilter' = ""
            /\ viewport' = UpdateViewport(viewport, comments, "")
            /\ UNCHANGED <<mode, currentThread, refreshEnabled, ticks>>
       ELSE /\ mode' = "threads"
            /\ currentThread' = Nil
            /\ refreshEnabled' = FALSE
            /\ StopTicks
            /\ UNCHANGED <<commentFilter, viewport>>
    /\ UNCHANGED <<threadsData, comments, filterActive, status, err,
                   userScrolled, loadingComments, fetches, searches, resolves, treeVars, tviewVars>>

\* handleCommentsKeys, "/" (app.go:396-407)
KeySlash ==
    /\ mode = "comments"
    /\ filterActive' = ~filterActive
    /\ commentFilter' = IF filterActive' THEN commentFilter ELSE ""
    /\ viewport' = Resize(viewport, filterActive', comments, commentFilter')
    /\ UNCHANGED <<mode, currentThread, threadsData, comments, status, err, userScrolled,
                   refreshEnabled, loadingComments, envVars, treeVars, tviewVars>>

\* handleCommentsKeys, "end" (app.go:392-395)
KeyEnd ==
    /\ mode = "comments"
    /\ userScrolled' = FALSE
    /\ viewport' = GotoBottom(viewport)
    /\ UNCHANGED <<mode, currentThread, threadsData, comments, commentFilter, filterActive,
                   status, err, refreshEnabled, loadingComments, envVars, treeVars, tviewVars>>

\* handleCommentsKeys, "up" / "k" (app.go:408-411)
KeyUp ==
    /\ mode = "comments"
    /\ viewport' = LineUp(viewport)
    /\ userScrolled' = TRUE
    /\ UNCHANGED <<mode, currentThread, threadsData, comments, commentFilter, filterActive,
                   status, err, refreshEnabled, loadingComments, envVars, treeVars, tviewVars>>

\* handleCommentsKeys, "down" / "j" (app.go:412-417)
KeyDown ==
    /\ mode = "comments"
    /\ viewport' = LineDown(viewport)
    /\ userScrolled' = IF AtBottom(viewport') THEN FALSE ELSE userScrolled
    /\ UNCHANGED <<mode, currentThread, threadsData, comments, commentFilter, filterActive,
                   status, err, refreshEnabled, loadingComments, envVars, treeVars, tviewVars>>

\* handleCommentsKeys, "pgup" (app.go:418-421)
KeyPgUp ==
    /\ mode = "comments"
    /\ viewport' = ViewUp(viewport)
    /\ userScrolled' = TRUE
    /\ UNCHANGED <<mode, currentThread, threadsData, comments, commentFilter, filterActive,
                   status, err, refreshEnabled, loadingComments, envVars, treeVars, tviewVars>>

\* handleCommentsKeys, "pgdown" (app.go:422-427)
KeyPgDown ==
    /\ mode = "comments"
    /\ viewport' = ViewDown(viewport)
    /\ userScrolled' = IF AtBottom(viewport') THEN FALSE ELSE userScrolled
    /\ UNCHANGED <<mode, currentThread, threadsData, comments, commentFilter, filterActive,
                   status, err, refreshEnabled, loadingComments, envVars, treeVars, tviewVars>>

\* Update, commentsLoadedMsg (app.go:187-202): the result of a fetch that
\* fetchCommentsCmd issued for thread t (app.go:617-620)
CommentsLoadedFor(t) ==
    /\ fetches[t] > 0
    /\ fetches' = [fetches EXCEPT ![t] = @ - 1]
    /\ loadingComments' = FALSE
    /\ \/ /\ err' = "error"
          /\ UNCHANGED <<comments, currentThread, viewport>>
       \/ \E cs \in ListsOf(t), title \in {"", TitleOf(t)} :
          /\ err' = ""
          /\ comments' = cs
          /\ viewport' = LET vp == UpdateViewport(viewport, cs, commentFilter)
                          IN IF userScrolled THEN vp ELSE GotoBottom(vp)
          /\ currentThread' = IF title # "" /\ currentThread # Nil
                              THEN [currentThread EXCEPT !.title = title]
                              ELSE currentThread
    /\ UNCHANGED <<mode, threadsData, commentFilter, filterActive, status, userScrolled,
                   refreshEnabled, ticks, searches, resolves, treeVars, tviewVars>>

CommentsLoaded == \E t \in ThreadIds : CommentsLoadedFor(t)

\* a tick that issues its fetch and schedules no next tick
RefreshTickOnce(k) ==
    /\ ticks[k] > 0
    /\ ticks' = [ticks EXCEPT ![k] = @ - 1]
    /\ IF mode = "comments" /\ refreshEnabled
       THEN FetchCommentsCmd(currentThread)
       ELSE UNCHANGED fetches
    /\ UNCHANGED <<modelVars, searches, resolves, treeVars, tviewVars>>
    /\ Tasks' <= MaxTasks

\* Update, refreshTickMsg (app.go:203-207): a pending tick of a chain of kind k
RefreshTickOf(k) ==
    /\ ticks[k] > 0
    /\ IF mode = "comments" /\ refreshEnabled
       THEN /\ FetchCommentsCmd(currentThread)
            /\ UNCHANGED ticks
       ELSE /\ ticks' = [ticks EXCEPT ![k] = @ - 1]
            /\ UNCHANGED fetches
    /\ UNCHANGED <<modelVars, searches, resolves, treeVars, tviewVars>>
    /\ Tasks' <= MaxTasks

RefreshTick == \E k \in {"live", "stopped"} : RefreshTickOf(k)

InitModel == ModelStart /\ EnvStart /\ TreeIdle /\ TviewStart

NextModel ==
    \/ KeyMenuEnter \/ ThreadsLoaded \/ KeyThreadsEnter \/ KeyThreadsBack
    \/ KeyUrlEnter \/ KeyUrlEsc \/ UrlThread
    \/ KeyFilterClose \/ KeyFilterType \/ KeyRefresh \/ KeyEsc \/ KeyBackspace \/ KeySlash
    \/ KeyEnd \/ KeyUp \/ KeyDown \/ KeyPgUp \/ KeyPgDown
    \/ CommentsLoaded \/ RefreshTick

\* the bubbletea session with its outstanding tasks and pending ticks
SpecModel == InitModel /\ [][NextModel]_vars

\* the runtime delivers the message of every command, and a timer fires
\* whatever the user types (tea.Tick, app.go:630-634; the HTTP client gives up
\* after 15 seconds, client.go:19)
FairModel ==
    /\ WF_vars(CommentsLoaded) /\ WF_vars(ThreadsLoaded) /\ WF_vars(UrlThread)
    /\ SF_vars(RefreshTick)

\* the bubbletea session whose commands and timers all complete
SpecModelLive == InitModel /\ [][NextModel]_vars /\ FairModel

----------------------------------------------------------------------------
(* The tview session: TviewApp and its key handler (tview_app.go) *)

\* goroutines and queued updates of the tview session
PaneTasksOf(p) ==
    prt.searches[p] + prt.sel[p]["A"] + prt.sel[p]["B"] + prt.ref[p]["A"] + prt.ref[p]["B"]
        + prt.tickers[p]

PaneTasks == PaneTasksOf("primary") + PaneTasksOf("secondary")

TvTasks ==
    rt.fetches["A"] + rt.fetches["B"] + rt.searches + rt.resolves.blank
        + rt.resolves.text + rt.tickers + rt.queued + PaneTasks

\* a Thread the session points ta.currentThread away from stays the primary
\* pane's thread when splitView had copied the pointer (tview_app.go:1041)
Detach(s) ==
    IF s.splitMode /\ s.pane["primary"].shared
    THEN [s EXCEPT !.pane["primary"].thread = ta.currentThread,
                   !.pane["primary"].shared = FALSE]
    ELSE s

TvOutstanding == rt.fetches["A"] + rt.fetches["B"]

\* loadComments (tview_app.go:789-815): the goroutine it starts
LoadComments(thread, r) ==
    IF thread = Nil THEN r
    ELSE [r EXCEPT !.fetches[thread.id] = @ + 1]

\* stopAutoRefresh, the send (tview_app.go:848-851): a ticker goroutine waiting
\* in its select takes the signal and ends; with none waiting it is dropped
StopSignal(r) ==
    {r} \cup (IF r.tickers > 0 THEN {[r EXCEPT !.tickers = @ - 1]} ELSE {})

\* startAutoRefresh (tview_app.go:822-844): stop, then one more ticker goroutine
StartAutoRefresh(r) == {[q EXCEPT !.tickers = @ + 1] : q \in StopSignal(r)}

\* globalKeyHandler, menu page, Enter: selectMenuItem (tview_app.go:384-386, 684-719)
TvMenuEnter ==
    /\ ta.page = "menu" /\ ~ta.filterActive
    /\ \E item \in MenuItemTypes :
         CASE item = "separator" -> UNCHANGED <<ta, rt>>
           [] item = "url_input" ->
                /\ ta' = [ta EXCEPT !.page = "url", !.statusBar = "keys"]
                /\ UNCHANGED rt
           [] OTHER ->
                /\ rt.searches < MaxSearches
                /\ ta' = [ta EXCEPT !.statusBar = "status"]
                /\ rt' = [rt EXCEPT !.searches = @ + 1]
    /\ UNCHANGED <<treeVars, modelVars, envVars, paneVars>>
    /\ TvTasks' <= MaxTasks

\* selectMenuItem, the update its goroutine queues (tview_app.go:703-718)
TvThreadsResult ==
    /\ rt.searches > 0
    /\ rt' = [rt EXCEPT !.searches = @ - 1]
    /\ \E outcome \in {"error", "empty", "found"} :
         CASE outcome = "error" -> ta' = [ta EXCEPT !.statusBar = "error"]
           [] outcome = "empty" -> ta' = [ta EXCEPT !.statusBar = "no-threads"]
           [] OTHER -> ta' = [ta EXCEPT !.threadsData = Listing, !.aliased = FALSE,
                                        !.statusBar = "keys", !.page = "threads"]
    /\ UNCHANGED <<treeVars, modelVars, envVars, paneVars>>

\* globalKeyHandler, threads page, Enter: selectThread (tview_app.go:494-496, 749-764)
TvThreadsEnter ==
    /\ ta.page = "threads" /\ ~ta.filterActive
    /\ IF ta.threadsData = <<>>
       THEN UNCHANGED <<ta, rt, sp>>
       ELSE \E i \in 1..Len(ta.threadsData) :
             /\ ta' = [ta EXCEPT !.currentThread = ta.threadsData[i], !.aliased = TRUE,
                                 !.comments = <<>>, !.commentFilter = "",
                                 !.statusBar = "keys", !.page = "comments",
                                 !.refreshEnabled = TRUE]
             /\ sp' = Detach(sp)
             /\ rt' \in StartAutoRefresh(LoadComments(ta'.currentThread, rt))
             /\ TvOutstanding' <= MaxFetches /\ rt'.tickers <= MaxTicks
    /\ UNCHANGED <<treeVars, modelVars, envVars, prt>>
    /\ TvTasks' <= MaxTasks

\* globalKeyHandler, Escape on the threads page: showMenu (tview_app.go:509-513)
TvThreadsEsc ==
    /\ ta.page = "threads" /\ ~ta.filterActive
    /\ ta' = [ta EXCEPT !.page = "menu", !.statusBar = "keys"]
    /\ UNCHANGED <<rt, treeVars, modelVars, envVars, paneVars>>

\* showURLInput, the done function on Enter (tview_app.go:611-617)
TvUrlEnter ==
    /\ ta.page = "url"
    /\ \E text \in UrlTexts :
         IF text = <<>>
         THEN UNCHANGED <<ta, rt>>
         ELSE /\ rt.resolves.blank + rt.resolves.text < MaxResolves
              /\ ta' = [ta EXCEPT !.statusBar = "status"]
              /\ rt' = IF TrimSpace(text) = <<>>
                       THEN [rt EXCEPT !.resolves.blank = @ + 1]
                       ELSE [rt EXCEPT !.resolves.text = @ + 1]
    /\ UNCHANGED <<treeVars, modelVars, envVars, paneVars>>
    /\ TvTasks' <= MaxTasks

\* globalKeyHandler, Escape on the url page or while the filter is edited
\* (tview_app.go:374-382); hideFilter puts the comments page in front (650-656)
TvInputEsc ==
    /\ ta.page = "url" \/ ta.filterActive
    /\ ta' = IF ta.filterActive
             THEN [ta EXCEPT !.filterActive = FALSE, !.page = "comments"]
             ELSE [ta EXCEPT !.page = "menu", !.statusBar = "keys"]
    /\ UNCHANGED <<rt, treeVars, modelVars, envVars, paneVars>>

\* loadThreadFromURL, the update its goroutine queues (tview_app.go:770-786);
\* ThreadFromURL fails on a blank text (client.go:133-137)
TvUrlResult ==
    /\ \E kind \in {"blank", "text"} :
         /\ rt.resolves[kind] > 0
         /\ \/ /\ ta' = [ta EXCEPT !.statusBar = "keys", !.page = "menu"]
               /\ rt' = [rt EXCEPT !.resolves[kind] = @ - 1]
               /\ UNCHANGED sp
            \/ /\ kind = "text"
               /\ \E t \in ThreadIds :
                    /\ ta' = [ta EXCEPT !.currentThread = [id |-> t, title |-> TitleOf(t)],
                                        !.aliased = FALSE, !.comments = <<>>,
                                        !.commentFilter = "", !.statusBar = "keys",
                                        !.page = "comments", !.refreshEnabled = TRUE]
                    /\ rt' \in StartAutoRefresh(
                                 LoadComments(ta'.currentThread,
                                              [rt EXCEPT !.resolves[kind] = @ - 1]))
               /\ sp' = Detach(sp)
               /\ TvOutstanding' <= MaxFetches /\ rt'.tickers <= MaxTicks
    /\ UNCHANGED <<treeVars, modelVars, envVars, prt>>
    /\ TvTasks' <= MaxTasks

\* globalKeyHandler, Escape on the comments page: stopAutoRefresh, showThreads
\* (tview_app.go:514-518, 846-852, 588-597); in split mode the pane block takes
\* the key (tview_app.go:406-480)
TvCommentsEsc ==
    /\ ta.page = "comments" /\ ~ta.filterActive /\ ~sp.splitMode
    /\ ta' = [ta EXCEPT !.refreshEnabled = FALSE, !.page = "threads", !.statusBar = "keys"]
    /\ rt' \in StopSignal(rt)
    /\ UNCHANGED <<treeVars, modelVars, envVars, paneVars>>

\* globalKeyHandler, 'r' on the comments page: refreshComments (tview_app.go:525-529, 817-820)
TvRefreshKey ==
    /\ ta.page = "comments" /\ ~ta.filterActive
    /\ ta' = [ta EXCEPT !.statusBar = "status"]
    /\ rt' = LoadComments(ta.currentThread, rt)
    /\ TvOutstanding' <= MaxFetches
    /\ UNCHANGED <<treeVars, modelVars, envVars, paneVars>>
    /\ TvTasks' <= MaxTasks

\* globalKeyHandler, '/' on the comments page: showFilter (tview_app.go:530-534, 625-644)
TvSlash ==
    /\ ta.page = "comments" /\ ~ta.filterActive
    /\ ta' = [ta EXCEPT !.filterActive = TRUE]
    /\ UNCHANGED <<rt, treeVars, modelVars, envVars, paneVars>>

\* showFilter, the changed function of the filter input (tview_app.go:633-636)
TvFilterChanged ==
    /\ ta.filterActive
    /\ \E text \in {"x", ""} :
         /\ text # ta.commentFilter
         /\ ta' = [ta EXCEPT !.commentFilter = text]
    /\ UNCHANGED <<rt, treeVars, modelVars, envVars, paneVars>>

\* showFilter, the done function of the filter input (tview_app.go:628-632)
TvFilterDone ==
    /\ ta.filterActive
    /\ ta' = [ta EXCEPT !.filterActive = FALSE, !.page = "comments"]
    /\ UNCHANGED <<rt, treeVars, modelVars, envVars, paneVars>>

\* the comments view scrolls on its own keys when it has the focus (an event
\* globalKeyHandler returns, tview_app.go:550); it then no longer follows the end
TvScrollUp ==
    /\ ta.page = "comments" /\ ~ta.filterActive /\ ~sp.splitMode
    /\ ta.comments # <<>>
    /\ ta' = [ta EXCEPT !.atEnd = FALSE]
    /\ UNCHANGED <<rt, treeVars, modelVars, envVars, paneVars>>

\* an update that adds the fetched records to the list instead of replacing it
TvCommentsResultAppend(t) ==
    /\ rt.fetches[t] > 0
    /\ rt' = [rt EXCEPT !.fetches[t] = @ - 1]
    /\ \/ ta' = [ta EXCEPT !.statusBar = "error"]
       \/ \E cs \in ListsOf(t), title \in {"", TitleOf(t)} :
            ta' = [ta EXCEPT
                     !.currentThread = IF title # "" THEN [@ EXCEPT !.title = title] ELSE @,
                     !.threadsData = IF title # "" /\ ta.aliased
                                     THEN [i \in 1..Len(@) |->
                                             IF @[i].id = ta.currentThread.id
                                             THEN [@[i] EXCEPT !.title = title] ELSE @[i]]
                                     ELSE @,
                     !.statusBar = IF title # "" THEN "keys" ELSE @,
                     !.comments = IF Len(@) < 2 THEN @ \o cs ELSE cs,
                     !.atEnd = TRUE]
    /\ UNCHANGED <<treeVars, modelVars, envVars, paneVars>>

\* loadComments, the update its goroutine queues for a fetch of thread t
\* (tview_app.go:796-813)
TvCommentsResultFor(t) ==
    /\ rt.fetches[t] > 0
    /\ rt' = [rt EXCEPT !.fetches[t] = @ - 1]
    /\ \/ ta' = [ta EXCEPT !.statusBar = "error"]
       \/ \E cs \in ListsOf(t), title \in {"", TitleOf(t)} :
            ta' = [ta EXCEPT
                     !.currentThread = IF title # "" THEN [@ EXCEPT !.title = title] ELSE @,
                     !.threadsData = IF title # "" /\ ta.aliased
                                     THEN [i \in 1..Len(@) |->
                                             IF @[i].id = ta.currentThread.id
                                             THEN [@[i] EXCEPT !.title = title] ELSE @[i]]
                                     ELSE @,
                     !.statusBar = IF title # "" THEN "keys" ELSE @,
                     !.comments = cs,
                     !.atEnd = TRUE]
    /\ UNCHANGED <<treeVars, modelVars, envVars, paneVars>>

TvCommentsResult == \E t \in ThreadIds : TvCommentsResultFor(t)

\* a ticker goroutine of startAutoRefresh takes a tick (tview_app.go:831-843)
TvTick ==
    /\ rt.tickers > 0
    /\ IF ta.refreshEnabled
       THEN /\ rt.queued < MaxTicks
            /\ rt' = [rt EXCEPT !.queued = @ + 1]
       ELSE UNCHANGED rt
    /\ UNCHANGED <<ta, treeVars, modelVars, envVars, paneVars>>
    /\ TvTasks' <= MaxTasks

\* the update a tick queued runs in the event loop: loadComments (tview_app.go:835-837)
TvQueuedLoad ==
    /\ rt.queued > 0
    /\ rt' = LoadComments(ta.currentThread, [rt EXCEPT !.queued = @ - 1])
    /\ TvOutstanding' <= MaxFetches
    /\ UNCHANGED <<ta, treeVars, modelVars, envVars, paneVars>>

InitTview == ModelStart /\ EnvStart /\ TreeIdle /\ TviewStart

NextTview ==
    \/ TvMenuEnter \/ TvThreadsResult \/ TvThreadsEnter \/ TvThreadsEsc
    \/ TvUrlEnter \/ TvInputEsc \/ TvUrlResult
    \/ TvCommentsEsc \/ TvRefreshKey \/ TvSlash \/ TvFilterChanged \/ TvFilterDone
    \/ TvScrollUp \/ TvCommentsResult \/ TvTick \/ TvQueuedLoad

\* the tview session with its goroutines and queued updates
SpecTview == InitTview /\ [][NextTview]_vars

----------------------------------------------------------------------------
(* Split mode of the tview session: the two panes (tview_app.go:1031-1497) *)

\* the keys of the pane block reach it on the comments page in split mode
\* (tview_app.go:374-380, 406-407)
InSplit == ta.page = "comments" /\ ~ta.filterActive /\ sp.splitMode

\* getActivePane (tview_app.go:1247-1252)
GetActivePane == IF sp.activePaneID = "secondary" THEN "secondary" ELSE "primary"

\* the Thread pane.thread points to
PaneThread(p) == IF sp.pane[p].shared THEN ta.currentThread ELSE sp.pane[p].thread

\* rebuildSplitLayout (tview_app.go:1059-1071): AddPage puts the comments page
\* in front, updateSplitHeader writes the key hints (1226-1244)
RebuildSplitLayout(a) == [a EXCEPT !.page = "comments", !.statusBar = "keys"]

\* a nil pointer is dereferenced in an update of the event loop (pane.thread
\* at tview_app.go:1425 and 1486, ta.primaryPane in buildPaneContent, 1077, once
\* closeSplitMode has cleared it): the program ends, and with it every goroutine
Panic ==
    /\ ta' = [ta EXCEPT !.page = "panic", !.filterActive = FALSE]
    /\ rt' = TvIdle
    /\ prt' = PaneIdle
    /\ sp' = sp

\* the non-blocking send on pane.stopRefresh (tview_app.go:467-470): a ticker
\* goroutine of the pane waiting in its select takes it and ends, else it is dropped
StopPane(r, p) ==
    {r} \cup (IF r.tickers[p] > 0 THEN {[r EXCEPT !.tickers[p] = @ - 1]} ELSE {})

\* startAutoRefreshForPane (tview_app.go:1439-1471) for a pane with a thread
StartAutoRefreshForPane(r, p) ==
    {[q EXCEPT !.tickers[p] = @ + 1] :
        q \in IF sp.pane[p].refreshEnabled THEN StopPane(r, p) ELSE {r}}

\* pane.thread.Title = title (tview_app.go:1424-1426, 1485-1487)
SetPaneTitle(s, p, title) ==
    IF title = "" \/ s.pane[p].shared THEN s
    ELSE [s EXCEPT !.pane[p].thread = [@ EXCEPT !.title = title]]

\* the same write seen from the session when the pane shares its Thread
SetSharedTitle(a, p, title) ==
    IF title # "" /\ sp.pane[p].shared
    THEN [a EXCEPT !.currentThread = [@ EXCEPT !.title = title]]
    ELSE a

\* splitView reached from any page
TvSplitViewAnyPage ==
    /\ ~ta.filterActive /\ ta.page # "panic"
    /\ IF sp.splitMode
       THEN UNCHANGED <<ta, sp>>
       ELSE /\ PaneTasks = 0 /\ sp.splits < MaxSplits
            /\ sp' = [splitMode |-> TRUE, activePaneID |-> "secondary",
                      panes |-> PaneIds, splits |-> sp.splits + 1,
                      pane |-> [p \in PaneIds |->
                                  IF p = "primary"
                                  THEN [NewCommentPane EXCEPT
                                          !.shared = (ta.currentThread # Nil),
                                          !.comments = ta.comments,
                                          !.commentFilter = ta.commentFilter]
                                  ELSE [NewCommentPane EXCEPT !.showingMenu = TRUE]]]
            /\ ta' = RebuildSplitLayout(ta)
    /\ UNCHANGED <<rt, prt, treeVars, modelVars, envVars>>

\* globalKeyHandler, 'h' / 'v' on the comments page: splitView
\* (tview_app.go:535-544, 1031-1056); in split mode the key does nothing.
\* Split mode is entered again only when the goroutines working for the
\* dropped panes have delivered their updates
TvSplitView ==
    /\ ta.page = "comments" /\ ~ta.filterActive
    /\ IF sp.splitMode
       THEN UNCHANGED <<ta, sp>>
       ELSE /\ PaneTasks = 0 /\ sp.splits < MaxSplits
            /\ sp' = [splitMode |-> TRUE, activePaneID |-> "secondary",
                      panes |-> PaneIds, splits |-> sp.splits + 1,
                      pane |-> [p \in PaneIds |->
                                  IF p = "primary"
                                  THEN [NewCommentPane EXCEPT
                                          !.shared = (ta.currentThread # Nil),
                                          !.comments = ta.comments,
                                          !.commentFilter = ta.commentFilter]
                                  ELSE [NewCommentPane EXCEPT !.showingMenu = TRUE]]]
            /\ ta' = RebuildSplitLayout(ta)
    /\ UNCHANGED <<rt, prt, treeVars, modelVars, envVars>>

\* globalKeyHandler, Tab in split mode: switchActivePane (tview_app.go:546-550, 1206-1223)
TvSwitchActivePane ==
    /\ InSplit
    /\ sp' = [sp EXCEPT !.activePaneID = IF @ = "primary" THEN "secondary" ELSE "primary"]
    /\ ta' = RebuildSplitLayout(ta)
    /\ UNCHANGED <<rt, prt, treeVars, modelVars, envVars>>

\* pane block, menu shown, Enter: paneSelectMenuItem (tview_app.go:419-421, 1338-1356)
PaneSelectMenuItem ==
    /\ InSplit /\ sp.pane[GetActivePane].showingMenu
    /\ \E item \in MenuItemTypes :
         IF item \in {"separator", "url_input"}
         THEN UNCHANGED <<ta, prt>>
         ELSE /\ prt.searches[GetActivePane] < MaxSearches
              /\ ta' = [ta EXCEPT !.statusBar = "status"]
              /\ prt' = [prt EXCEPT !.searches[GetActivePane] = @ + 1]
    /\ UNCHANGED <<rt, sp, treeVars, modelVars, envVars>>
    /\ TvTasks' <= MaxTasks

\* paneSelectMenuItem, the update its goroutine queues (tview_app.go:1358-1374)
PaneThreadsResult ==
    \E p \in PaneIds :
      /\ prt.searches[p] > 0
      /\ \E outcome \in {"error", "empty", "found"} :
           CASE outcome = "error" ->
                  /\ ta' = [ta EXCEPT !.statusBar = "error"]
                  /\ prt' = [prt EXCEPT !.searches[p] = @ - 1]
                  /\ UNCHANGED <<rt, sp>>
             [] outcome = "empty" ->
                  /\ ta' = [ta EXCEPT !.statusBar = "no-threads"]
                  /\ prt' = [prt EXCEPT !.searches[p] = @ - 1]
                  /\ UNCHANGED <<rt, sp>>
             [] OTHER ->
                  IF sp.splitMode
                  THEN /\ sp' = [sp EXCEPT !.pane[p].threadsData = Listing,
                                           !.pane[p].showingMenu = FALSE,
                                           !.pane[p].showingThreads = TRUE]
                       /\ ta' = RebuildSplitLayout(ta)
                       /\ prt' = [prt EXCEPT !.searches[p] = @ - 1]
                       /\ UNCHANGED rt
                  ELSE Panic
      /\ UNCHANGED <<treeVars, modelVars, envVars>>

\* pane block, threads shown, Escape (tview_app.go:443-448)
PaneThreadsEsc ==
    /\ InSplit
    /\ ~sp.pane[GetActivePane].showingMenu /\ sp.pane[GetActivePane].showingThreads
    /\ sp' = [sp EXCEPT !.pane[GetActivePane].showingThreads = FALSE,
                        !.pane[GetActivePane].showingMenu = TRUE]
    /\ ta' = RebuildSplitLayout(ta)
    /\ UNCHANGED <<rt, prt, treeVars, modelVars, envVars>>

\* pane block, threads shown, Enter: paneSelectThread (tview_app.go:440-442, 1402-1416)
PaneSelectThread ==
    /\ InSplit
    /\ ~sp.pane[GetActivePane].showingMenu /\ sp.pane[GetActivePane].showingThreads
    /\ IF sp.pane[GetActivePane].threadsData = <<>>
       THEN UNCHANGED <<ta, sp, prt>>
       ELSE \E i \in 1..Len(sp.pane[GetActivePane].threadsData) :
              LET thread == sp.pane[GetActivePane].threadsData[i] IN
              /\ sp' = [sp EXCEPT !.pane[GetActivePane].thread = thread,
                                  !.pane[GetActivePane].shared = FALSE,
                                  !.pane[GetActivePane].comments = <<>>,
                                  !.pane[GetActivePane].commentFilter = "",
                                  !.pane[GetActivePane].showingThreads = FALSE,
                                  !.pane[GetActivePane].showingMenu = FALSE]
              /\ ta' = [ta EXCEPT !.statusBar = "status"]
              /\ prt' = [prt EXCEPT !.sel[GetActivePane][thread.id] = @ + 1]
    /\ UNCHANGED <<rt, treeVars, modelVars, envVars>>
    /\ TvTasks' <= MaxTasks

\* paneSelectThread, the update its goroutine queues for a fetch of thread t
\* (tview_app.go:1418-1435)
PaneSelResultFor(p, t) ==
    /\ prt.sel[p][t] > 0
    /\ \/ /\ ta' = [ta EXCEPT !.statusBar = "error"]
          /\ prt' = [prt EXCEPT !.sel[p][t] = @ - 1]
          /\ UNCHANGED <<rt, sp>>
       \/ \E cs \in ListsOf(t), title \in {"", TitleOf(t)} :
            IF (title # "" /\ PaneThread(p) = Nil) \/ ~sp.splitMode
            THEN Panic
            ELSE /\ sp' = [SetPaneTitle(sp, p, title) EXCEPT
                             !.pane[p].comments = cs,
                             !.pane[p].refreshEnabled = (PaneThread(p) # Nil) \/ @]
                 /\ ta' = RebuildSplitLayout(SetSharedTitle(ta, p, title))
                 /\ prt' \in IF PaneThread(p) = Nil
                             THEN {[prt EXCEPT !.sel[p][t] = @ - 1]}
                             ELSE StartAutoRefreshForPane(
                                      [prt EXCEPT !.sel[p][t] = @ - 1], p)
                 /\ UNCHANGED rt
    /\ UNCHANGED <<treeVars, modelVars, envVars>>

PaneSelResult == \E p \in PaneIds, t \in ThreadIds : PaneSelResultFor(p, t)

\* pane block, comments shown, Escape (tview_app.go:459-475)
PaneCommentsEsc ==
    /\ InSplit
    /\ ~sp.pane[GetActivePane].showingMenu /\ ~sp.pane[GetActivePane].showingThreads
    /\ sp' = [sp EXCEPT !.pane[GetActivePane].showingThreads = TRUE,
                        !.pane[GetActivePane].thread = Nil,
                        !.pane[GetActivePane].shared = FALSE,
                        !.pane[GetActivePane].comments = <<>>,
                        !.pane[GetActivePane].refreshEnabled = FALSE]
    /\ prt' \in IF sp.pane[GetActivePane].refreshEnabled
                THEN StopPane(prt, GetActivePane) ELSE {prt}
    /\ ta' = RebuildSplitLayout(ta)
    /\ UNCHANGED <<rt, treeVars, modelVars, envVars>>

\* a ticker goroutine of startAutoRefreshForPane takes a tick and calls
\* loadCommentsForPane (tview_app.go:1461-1464, 1474-1479); a tick that finds
\* the refresh off or no thread changes nothing
PaneTick ==
    \E p \in PaneIds :
      /\ prt.tickers[p] > 0
      /\ sp.pane[p].refreshEnabled /\ PaneThread(p) # Nil
      /\ prt' = [prt EXCEPT !.ref[p][PaneThread(p).id] = @ + 1]
      /\ UNCHANGED <<ta, rt, sp, treeVars, modelVars, envVars>>
      /\ TvTasks' <= MaxTasks

\* loadCommentsForPane, the queued update when the fetch failed: it returns
\* at once (tview_app.go:1481-1484)
PaneRefFailed(p, t) ==
    /\ prt.ref[p][t] > 0
    /\ prt' = [prt EXCEPT !.ref[p][t] = @ - 1]
    /\ UNCHANGED <<ta, rt, sp>>

\* loadCommentsForPane, the update its goroutine queues for a fetch of thread t
\* (tview_app.go:1480-1496); for a dropped pane the list it stores is not kept.
\* The goroutine itself reads pane.thread.Permalink outside the event loop
\* (1480): when Escape has cleared pane.thread since the tick it may find nil,
\* which ends the program like the nil title write of the update
PaneRefResultFor(p, t) ==
    /\ prt.ref[p][t] > 0
    /\ \/ PaneRefFailed(p, t)
       \/ \E cs \in ListsOf(t), title \in {"", TitleOf(t)} :
            IF title # "" /\ PaneThread(p) = Nil
            THEN Panic
            ELSE /\ sp' = IF sp.splitMode
                          THEN [SetPaneTitle(sp, p, title) EXCEPT !.pane[p].comments = cs]
                          ELSE SetPaneTitle(sp, p, title)
                 /\ ta' = IF sp.splitMode
                          THEN RebuildSplitLayout(SetSharedTitle(ta, p, title))
                          ELSE ta
                 /\ prt' = [prt EXCEPT !.ref[p][t] = @ - 1]
                 /\ UNCHANGED rt
    /\ UNCHANGED <<treeVars, modelVars, envVars>>

PaneRefResult == \E p \in PaneIds, t \in ThreadIds : PaneRefResultFor(p, t)

\* what the goroutines of a dropped pane still point to: of its fields their
\* updates only read the thread. A ticker whose stop signal was dropped finds
\* the refresh off at every tick
DroppedPane(p) == [NewCommentPane EXCEPT !.thread = PaneThread(p)]

\* pane block, menu shown, Escape: closeSplitMode (tview_app.go:422-425, 1255-1299)
TvCloseSplitMode ==
    /\ InSplit /\ sp.pane[GetActivePane].showingMenu
    /\ LET keep == PaneThread("primary") # Nil IN
       ta' = [ta EXCEPT
                !.currentThread = IF keep THEN PaneThread("primary") ELSE @,
                !.aliased = IF keep /\ ~sp.pane["primary"].shared THEN FALSE ELSE @,
                !.comments = IF keep THEN sp.pane["primary"].comments ELSE @,
                !.commentFilter = IF keep THEN sp.pane["primary"].commentFilter ELSE @,
                !.refreshEnabled = TRUE, !.atEnd = TRUE,
                !.page = "comments", !.statusBar = "keys"]
    /\ sp' = [SplitOff EXCEPT !.pane = [p \in PaneIds |-> DroppedPane(p)],
                              !.splits = sp.splits]
    /\ prt' = [prt EXCEPT !.tickers = [p \in PaneIds |-> 0]]
    /\ rt' \in StartAutoRefresh(rt)
    /\ rt'.tickers <= MaxTicks
    /\ UNCHANGED <<treeVars, modelVars, envVars>>
    /\ TvTasks' <= MaxTasks

\* the session reaches its comments page by a thread selection and keeps its
\* ticker; the URL entry, the filter and the manual refresh of the single-pane
\* session are the subject of SpecTview
NextSplit ==
    \/ TvMenuEnter \/ TvThreadsResult \/ TvThreadsEnter
    \/ TvCommentsResult \/ TvTick \/ TvQueuedLoad
    \/ TvSplitView \/ TvSwitchActivePane \/ TvCloseSplitMode
    \/ PaneSelectMenuItem \/ PaneThreadsResult \/ PaneThreadsEsc \/ PaneSelectThread
    \/ PaneSelResult \/ PaneCommentsEsc \/ PaneTick \/ PaneRefResult

\* the tview session with split mode
SpecSplit == InitTview /\ [][NextSplit]_vars

----------------------------------------------------------------------------
(* The menu keys of the tview session (tview_app.go:213-245, 1302-1335) *)

\* NewTviewApp with a non-empty menu list of up to MaxMenu entries, after setupUI
InitMenu ==
    /\ \E n \in 1..MaxMenu : \E items \in [1..n -> MenuItemTypes] :
         menu = [menuItems |-> items, menuIndex |-> SkipSeparators(items, 0),
                 splitMode |-> FALSE, paneMenuIndex |-> 0, pc |-> "idle", orig |-> 0, pass |-> 0]
    /\ input = <<>> /\ filterText = <<>> /\ stored = <<>> /\ forest = EmptyForest
    /\ tphase = "idle" /\ variant = "none" /\ renderWidth = 0 /\ rendered = <<>>
    /\ SearchIdle /\ WrapIdle
    /\ ModelStart /\ EnvStart /\ TviewStart

MenuFrame ==
    UNCHANGED <<input, filterText, stored, forest, tphase, variant, renderWidth, rendered,
                search, found, wrap, modelVars, envVars, tviewVars>>

\* globalKeyHandler, menu page, Up or 'k': menuUp is entered (tview_app.go:386-388, 213-214)
MenuUp ==
    /\ menu.pc = "idle" /\ ~menu.splitMode
    /\ menu' = [menu EXCEPT !.pc = "menuUp", !.orig = menu.menuIndex]
    /\ MenuFrame

\* globalKeyHandler, menu page, Down or 'j': menuDown is entered (tview_app.go:389-391, 230-231)
MenuDown ==
    /\ menu.pc = "idle" /\ ~menu.splitMode
    /\ menu' = [menu EXCEPT !.pc = "menuDown", !.orig = menu.menuIndex]
    /\ MenuFrame

\* one pass of the loop of menuUp or menuDown; the handler returns at a break
\* (tview_app.go:215-226, 232-243). pass tells one pass from the next, so that
\* a loop that leaves the index where it was is still seen to run
MenuLoop ==
    /\ menu.pc \in {"menuUp", "menuDown"}
    /\ LET i == IF menu.pc = "menuUp" THEN IndexUp(menu.menuItems, menu.menuIndex)
                ELSE IndexDown(menu.menuItems, menu.menuIndex)
       IN menu' = [menu EXCEPT !.menuIndex = i, !.pass = 1 - @,
                               !.pc = IF LoopBreaks(menu.menuItems, i, menu.orig)
                                      THEN "idle" ELSE @]
    /\ MenuFrame

\* splitView: NewCommentPane leaves the secondary pane's menuIndex at zero and
\* the pane shows the menu (tview_app.go:1045-1047, pane.go:33-56)
MenuSplitView ==
    /\ menu.pc = "idle" /\ ~menu.splitMode
    /\ menu' = [menu EXCEPT !.splitMode = TRUE, !.paneMenuIndex = 0]
    /\ MenuFrame

\* pane block, menu shown, Up or 'k': paneMenuUp is entered (tview_app.go:413-415, 1302-1303)
PaneMenuUp ==
    /\ menu.pc = "idle" /\ menu.splitMode
    /\ menu' = [menu EXCEPT !.pc = "paneMenuUp", !.orig = menu.paneMenuIndex]
    /\ MenuFrame

\* pane block, menu shown, Down or 'j': paneMenuDown is entered (tview_app.go:416-418, 1320-1321)
PaneMenuDown ==
    /\ menu.pc = "idle" /\ menu.splitMode
    /\ menu' = [menu EXCEPT !.pc = "paneMenuDown", !.orig = menu.paneMenuIndex]
    /\ MenuFrame

\* one pass of the loop of paneMenuUp or paneMenuDown (tview_app.go:1304-1315, 1322-1333)
PaneMenuLoop ==
    /\ menu.pc \in {"paneMenuUp", "paneMenuDown"}
    /\ LET i == IF menu.pc = "paneMenuUp"
                THEN IndexUp(menu.menuItems, menu.paneMenuIndex)
                ELSE IndexDown(menu.menuItems, menu.paneMenuIndex)
       IN menu' = [menu EXCEPT !.paneMenuIndex = i, !.pass = 1 - @,
                               !.pc = IF LoopBreaks(menu.menuItems, i, menu.orig)
                                      THEN "idle" ELSE @]
    /\ MenuFrame

\* pane block, menu shown, Escape: closeSplitMode drops the panes (tview_app.go:422-425, 1255-1299)
MenuCloseSplit ==
    /\ menu.pc = "idle" /\ menu.splitMode
    /\ menu' = [menu EXCEPT !.splitMode = FALSE]
    /\ MenuFrame

NextMenu ==
    \/ MenuUp \/ MenuDown \/ MenuLoop
    \/ MenuSplitView \/ PaneMenuUp \/ PaneMenuDown \/ PaneMenuLoop \/ MenuCloseSplit

\* the menu keys, the loops of their handlers taken one pass at a time
SpecMenu == InitMenu /\ [][NextMenu]_vars

\* a handler that has been entered keeps running
FairMenu == WF_vars(MenuLoop) /\ WF_vars(PaneMenuLoop)

\* the menu keys with handlers that run on
SpecMenuLive == InitMenu /\ [][NextMenu]_vars /\ FairMenu

----------------------------------------------------------------------------
(* Claims about the session's fetches and scheduler *)

\* C1: in every reachable state at most one comment fetch is outstanding.
CX_C1 == Outstanding <= 1

\* C2: the manual refresh key pressed while a comment fetch is outstanding
\* issues no fetch and leaves the session unchanged.
CX_C2 ==
    [][(KeyRefresh /\ Outstanding > 0) => (fetches' = fetches /\ UNCHANGED modelVars)]_vars

\* C3: a comment-fetch result applied after the session left CommentView
\* changes none of comments, thread (title), error message and status message.
CX_C3 ==
    [][(CommentsLoaded /\ mode # "comments")
          => UNCHANGED <<comments, currentThread, err, status>>]_vars

\* C4: a result of a fetch issued for thread A, applied while the session shows
\* another thread B, sets neither the comments nor B's title.
CX_C4 ==
    [][\A t \in ThreadIds :
          (CommentsLoadedFor(t) /\ mode = "comments" /\ currentThread # Nil
              /\ currentThread.id # t)
          => UNCHANGED <<comments, currentThread>>]_vars

\* C5: the tick of a scheduler that was stopped issues no fetch and changes no
\* session state.
CX_C5 ==
    [][RefreshTickOf("stopped") => (fetches' = fetches /\ UNCHANGED modelVars)]_vars

\* C6: after back or escape in CommentView the scheduler is stopped and the
\* loaded comments are empty; after escape the selected thread is cleared.
CX_C6 ==
    [][(KeyEsc \/ (KeyBackspace /\ ~filterActive))
          => /\ refreshEnabled' = FALSE
             /\ comments' = <<>>
             /\ KeyEsc => currentThread' = Nil]_vars

\* C14: after a scroll action (line up, line down, page up, page down) in
\* CommentView the manual-scroll flag is set unless the action brought the
\* viewport to the bottom.
CX_C14 ==
    [][(KeyUp \/ KeyDown \/ KeyPgUp \/ KeyPgDown)
          => (~AtBottom(viewport') => userScrolled')]_vars

----------------------------------------------------------------------------
(* Claims about the sessions' handlers *)

\* C13: a fetch result applied while the view was scrolled by hand (it does not
\* follow the end) leaves the view where it is; applied while the view follows
\* the end, it moves the view to the end.
CX_C13 ==
    [][TvCommentsResult =>
          /\ ~ta.atEnd => ~ta'.atEnd
          /\ ta.atEnd => ta'.atEnd]_vars

\* what a menu selection may do: nothing (separator), open the URL entry
\* without a request, or issue one thread search and stay in the menu loading
MenuSelectionEffect ==
    \/ UNCHANGED <<modelVars, envVars>>
    \/ mode' = "url" /\ UNCHANGED envVars
    \/ /\ searches' = searches + 1
       /\ UNCHANGED <<fetches, ticks, resolves>>
       /\ mode' = "menu"
       /\ status' = "loading-threads"

\* C15: a menu selection does nothing on a separator, opens UrlEntry on the
\* URL entry, and otherwise issues exactly one thread search and leaves the
\* session in Menu with a loading status until the search result arrives: no
\* other result or tick takes the session out of Menu or clears the status
\* while the search is outstanding.
CX_C15 ==
    [][/\ KeyMenuEnter => MenuSelectionEffect
       /\ ((CommentsLoaded \/ RefreshTick \/ UrlThread)
              /\ searches > 0 /\ mode = "menu" /\ status # "")
          => (mode' = "menu" /\ status' # "")]_vars

\* C16: applying a thread-search result either puts the session in ThreadList
\* with exactly the returned threads (no error, at least one thread), or leaves
\* it in Menu with a non-empty message and the previous thread list (error or
\* empty result).
CX_C16 ==
    [][ThreadsLoaded =>
          \/ mode' = "threads" /\ threadsData' = Listing /\ err' = ""
          \/ mode' = "menu" /\ err' # "" /\ threadsData' = threadsData]_vars

\* C17: selecting a thread in ThreadList puts the session in CommentView with
\* that thread selected, the filter text empty, filter editing off, the fetch
\* marked as in flight (the tview session has no flag: its mark is the
\* "Loading comments..." status), one more comment fetch outstanding for that
\* thread and one more refresh ticker started.
CX_C17 ==
    [][(TvThreadsEnter /\ ta' # ta) =>
          /\ ta'.page = "comments"
          /\ \E i \in 1..Len(ta.threadsData) : ta'.currentThread = ta.threadsData[i]
          /\ ta'.commentFilter = "" /\ ~ta'.filterActive
          /\ rt'.fetches[ta'.currentThread.id] = rt.fetches[ta'.currentThread.id] + 1
          /\ TvOutstanding' = TvOutstanding + 1
          /\ rt'.tickers >= 1 /\ ta'.refreshEnabled
          /\ ta'.statusBar = "status"]_vars

\* C18: a successful URL resolution leaves the session as a thread selection
\* does (CommentView, filter text empty, filter editing off, one more fetch for
\* the thread, a ticker running); a failed one leaves it in Menu with a
\* non-empty error message.
CX_C18 ==
    [][(TvUrlResult /\ ta.page = "url") =>
          \/ /\ ta'.page = "comments"
             /\ ta'.currentThread # Nil
             /\ ta'.commentFilter = "" /\ ~ta'.filterActive
             /\ ta'.refreshEnabled /\ rt'.tickers >= 1
             /\ rt'.fetches[ta'.currentThread.id] = rt.fetches[ta'.currentThread.id] + 1
          \/ /\ ta'.page = "menu" /\ ta'.statusBar = "error"
             /\ rt'.fetches = rt.fetches /\ rt'.tickers = rt.tickers]_vars

\* C19: submitting an empty or whitespace-only text in UrlEntry (a submission
\* that is not one of a non-blank text) is a cancel: the session goes to Menu,
\* no resolve request is issued and no error message is set.
CX_C19 ==
    [][(TvUrlEnter /\ rt'.resolves.text = rt.resolves.text) =>
          /\ ta'.page = "menu"
          /\ rt' = rt
          /\ ta'.statusBar # "error"]_vars

\* C20: in every reachable state the error message and the status message are
\* not both non-empty.
CX_C20 == ~(err # "" /\ status # "")

\* C12: a failed comment fetch records a non-empty error message and leaves
\* the loaded comments, the selected thread and the mode as they are; here for
\* the refresh fetch of a pane in split mode: the failed update keeps the
\* pane and shows an error in the status bar.
CX_C12 ==
    [][(\E p \in PaneIds, t \in ThreadIds : PaneRefFailed(p, t))
          => (sp' = sp /\ ta'.statusBar = "error")]_vars

----------------------------------------------------------------------------
(* Claims about split mode *)

\* C21: in every reachable state split mode is on if and only if exactly the
\* two panes, primary and secondary, exist, and then exactly one of them is
\* the focused pane; split mode is entered only from the comments page, and
\* the split key pressed in split mode changes nothing.
Thm_C21 ==
    /\ [](/\ sp.splitMode <=> sp.panes = PaneIds
          /\ sp.splitMode => sp.activePaneID \in PaneIds)
    /\ [][(~sp.splitMode /\ sp'.splitMode) => ta.page = "comments"]_vars
    /\ [][(TvSplitView /\ sp.splitMode) => UNCHANGED <<ta, rt, sp, prt>>]_vars

\* split mode is on and the focus was moved to the primary pane
Wit_C21 == sp.splitMode /\ sp.panes = PaneIds /\ sp.activePaneID = "primary"

\* what the session and each pane own: thread (with its title), comments,
\* filter, menu / thread selection and scheduler
SessionOwn == <<ta.currentThread, ta.comments, ta.commentFilter, rt.tickers>>

PaneOwn(p) ==
    <<PaneThread(p), sp.pane[p].comments, sp.pane[p].commentFilter,
      sp.pane[p].showingMenu, sp.pane[p].showingThreads, sp.pane[p].threadsData,
      prt.tickers[p]>>

\* C22: in split mode the two panes share no mutable state with each other or
\* with the suspended single-pane session: a fetch result, key action or tick
\* applied to one of them changes the thread (title included), comments,
\* filter, selection or scheduler of at most that one.
CX_C22 ==
    [][(sp.splitMode /\ sp'.splitMode /\ ta'.page # "panic")
          => ~(\E p \in PaneIds :
                 \/ SessionOwn' # SessionOwn /\ PaneOwn(p)' # PaneOwn(p)
                 \/ PaneOwn("primary")' # PaneOwn("primary")
                      /\ PaneOwn("secondary")' # PaneOwn("secondary"))]_vars

\* the pane shows the comments of a thread (buildPaneContent, tview_app.go:1074-1130)
PaneDisplays(p) ==
    /\ sp.splitMode /\ ta.page = "comments"
    /\ PaneThread(p) # Nil
    /\ ~sp.pane[p].showingMenu /\ ~sp.pane[p].showingThreads

\* C23: in split mode every pane that displays a thread's comments has its own
\* running refresh scheduler, so that the fetch for its thread recurs: a ticker
\* of the pane runs, or the fetch that starts it is still outstanding.
CX_C23 ==
    \A p \in PaneIds :
       PaneDisplays(p) => (prt.tickers[p] > 0 \/ prt.sel[p][PaneThread(p).id] > 0)

\* C24: closing split mode stops the pane schedulers and makes the focused
\* pane's thread, comments and filter the state of the single-pane session;
\* afterwards split mode is off and no pane scheduler issues a fetch.
CX_C24 ==
    [][/\ TvCloseSplitMode
          => /\ ~sp'.splitMode
             /\ \A p \in PaneIds : prt'.tickers[p] = 0
             /\ ta'.currentThread = PaneThread(GetActivePane)
             /\ ta'.comments = sp.pane[GetActivePane].comments
             /\ ta'.commentFilter = sp.pane[GetActivePane].commentFilter
       /\ ~sp.splitMode
          => \A p \in PaneIds, t \in ThreadIds : prt'.ref[p][t] <= prt.ref[p][t]]_vars

\* the lists a fetch can deliver
FetchedLists == UNION {ListsOf(t) : t \in ThreadIds}

\* C25: every mutation of the session's or a pane's fields happens in a step
\* of the event loop: a step of a ticker goroutine (TvTick, PaneTick) changes
\* neither the session nor a pane, and the comment list of the session and of
\* each pane is at every moment one whole fetched list (or empty), never a mix
\* of the records of two fetches.
Thm_C25 ==
    /\ [](/\ ta.comments \in FetchedLists
          /\ \A p \in PaneIds : sp.pane[p].comments \in FetchedLists)
    /\ [][(TvTick \/ PaneTick) => (ta' = ta /\ sp' = sp)]_vars

\* in split mode the session and the secondary pane each hold a fetched list
\* while a refresh fetch of the pane is on its way
Wit_C25 ==
    /\ sp.splitMode /\ ta.comments # <<>> /\ sp.pane["secondary"].comments # <<>>
    /\ \E t \in ThreadIds : prt.ref["secondary"][t] > 0

----------------------------------------------------------------------------
(* Claims about the scheduler's recurrence *)

\* C26: a refresh tick that fires while the session is in CommentView with
\* refresh enabled issues one comment fetch for the current thread and
\* schedules exactly one next tick; hence, when the session stays in
\* CommentView for ever, ticks keep firing and fetches are issued again and again.
Thm_C26 ==
    /\ [][(RefreshTick /\ mode = "comments" /\ refreshEnabled)
             => /\ currentThread # Nil
                /\ fetches' = [fetches EXCEPT ![currentThread.id] = @ + 1]
                /\ PendingTicks' = PendingTicks]_vars
    /\ <>[](mode = "comments")
          => []<><<RefreshTick /\ Outstanding' = Outstanding + 1>>_vars

\* in CommentView a tick has issued a second fetch for the thread, and the
\* next tick is pending
Wit_C26 ==
    /\ mode = "comments" /\ refreshEnabled /\ currentThread # Nil
    /\ ticks.live > 0 /\ fetches[currentThread.id] >= 2

----------------------------------------------------------------------------
(* Claims about the renderer *)

\* C27: for every forest and every width from 1 to 200, no line the renderer
\* emits, tree prefix included, is wider than width columns, whatever the
\* length of the bodies (empty and multi-paragraph bodies included).
CX_C27 ==
    (tphase = "rendered" /\ renderWidth \in 1..200)
       => \A k \in 1..Len(rendered) : Len(rendered[k]) <= renderWidth

\* C29: rendering yields the empty text whenever the width is zero or
\* negative, and, at any width, whenever the filter matches neither the author
\* nor the body of any record.
CX_C29 ==
    tphase = "rendered"
       => /\ renderWidth <= 0 => rendered = <<>>
          /\ (\A i \in 1..Len(input) : ~FilterMatches(input[i], filterText))
                => rendered = <<>>

----------------------------------------------------------------------------
(* Claims about the thread search *)

\* the children of the k-th phrase's listing that are posts satisfying the age
\* and title constraints of the query
Satisfying(k) ==
    LET q == search.query
        Meets(c) == /\ c.Kind = "t3" /\ c.Decodes
                    /\ WithinAge(q, c.CreatedUTC) /\ TitleMatches(q, c.Title)
    IN SelectSeq(search.responses[k].children, Meets)

\* the phrases whose query is answered with at least one such post, and the
\* phrases whose query fails
Yielding == {k \in 1..Len(search.query.Flairs) :
                ~search.responses[k].err /\ Satisfying(k) # <<>>}
Failing == {k \in 1..Len(search.query.Flairs) : search.responses[k].err}

Least(S) == CHOOSE k \in S : \A j \in S : k <= j

\* the returned threads are those of the k-th phrase, in the listing's order
ReturnsOnly(k) ==
    /\ ~found.err
    /\ Len(found.threads) = Len(Satisfying(k))
    /\ \A i \in 1..Len(found.threads) :
          /\ found.threads[i].ID = Satisfying(k)[i].ID
          /\ found.threads[i].Title = Satisfying(k)[i].Title
    /\ found.queried = k

\* C28 as stated: FindThreads returns only the threads of the first phrase
\* that yields a post satisfying the constraints, having queried no later
\* phrase, and returns an empty list and no error when no phrase yields one,
\* whatever becomes of the queries.
CX_C28 ==
    found # NotSearched
       => IF Yielding # {}
          THEN ReturnsOnly(Least(Yielding))
          ELSE found.threads = <<>> /\ ~found.err

\* C28 (amended): FindThreads queries the phrases in order until a query fails
\* or a phrase yields a post satisfying the constraints. In the second case it
\* returns only that phrase's threads and no later phrase is queried, so
\* results are never merged. A failed query ends the search with the error
\* and no threads. When every query is answered and none yields a post, every
\* phrase has been queried and the result is an empty list and no error.
Thm_C28 ==
    found # NotSearched
       => LET stops == Yielding \cup Failing
          IN IF stops = {}
             THEN /\ found.threads = <<>> /\ ~found.err
                  /\ found.queried = Len(search.query.Flairs)
             ELSE IF Least(stops) \in Yielding
                  THEN ReturnsOnly(Least(stops))
                  ELSE /\ found.err /\ found.threads = <<>>
                       /\ found.queried = Least(stops)

\* the first of two phrases yields a post, the second would yield one too, and
\* the search has returned
Wit_C28 ==
    /\ found # NotSearched
    /\ Yielding = {1, 2}
    /\ found.queried = 1

----------------------------------------------------------------------------
(* Claims about filter editing *)

\* C30: a step of the comment view that changes the filter text while filter
\* editing is active shows the loaded comments rendered under the new text,
\* starts no fetch, search or URL resolution, and leaves the comment list, the
\* selected thread and the mode as they were.
Thm_C30 ==
    [][(mode = "comments" /\ filterActive /\ commentFilter' # commentFilter)
          => /\ viewport'.lines = ContentLines(comments, commentFilter')
             /\ fetches' = fetches /\ searches' = searches /\ resolves' = resolves
             /\ comments' = comments
             /\ currentThread' = currentThread
             /\ mode' = mode]_vars

\* filter editing is active on loaded comments that are being followed, and
\* the text typed so far hides some of them
Wit_C30 ==
    /\ mode = "comments" /\ filterActive
    /\ commentFilter \in FilterTexts
    /\ comments # <<>>
    /\ viewport.lines < ContentLines(comments, "")

----------------------------------------------------------------------------
(* Claims about results that arrive late *)

\* C31: no update queued for a pane fails, and one that is applied after split
\* mode was closed leaves the page, the comments and the thread of the
\* single-pane session as they were.
CX_C31 ==
    [][(PaneThreadsResult \/ PaneSelResult \/ PaneRefResult)
          => /\ ta'.page # "panic"
             /\ ~sp.splitMode => /\ ta'.page = ta.page
                                 /\ ta'.comments = ta.comments
                                 /\ ta'.currentThread = ta.currentThread]_vars

\* C32: a thread-search result applied when the session is no longer in the
\* menu, and a URL-resolution result applied when it is no longer in the URL
\* entry, leave the mode, the selected thread, the thread list, the refresh
\* flag and the pending ticks as they were.
CX_C32 ==
    [][((ThreadsLoaded /\ mode # "menu") \/ (UrlThread /\ mode # "url"))
          => UNCHANGED <<mode, currentThread, threadsData, refreshEnabled, ticks>>]_vars

\* C33: while the session follows a thread (comments mode, refresh enabled)
\* at most one refresh tick is pending, so at most one chain of ticks issues
\* the scheduled fetches.
CX_C33 == (mode = "comments" /\ refreshEnabled) => PendingTicks <= 1

----------------------------------------------------------------------------
(* Claims about the fetch-in-flight flag and the keys of an active filter *)

\* C34: the fetch-in-flight flag is set exactly when a comment fetch issued
\* for the session has not delivered its result.
CX_C34 == loadingComments <=> Outstanding > 0

\* C35: while filter editing is active, the keys r, / , k and j start no
\* fetch, keep filter editing active and do not scroll the viewport.
CX_C35 ==
    [][(mode = "comments" /\ filterActive
          /\ (KeyRefresh \/ KeySlash \/ KeyUp \/ KeyDown))
          => /\ fetches' = fetches
             /\ filterActive'
             /\ userScrolled' = userScrolled
             /\ viewport'.YOffset = viewport.YOffset]_vars

----------------------------------------------------------------------------
(* Claims about the menu selection *)

Selectable(i) ==
    /\ i \in 0..(Len(menu.menuItems) - 1)
    /\ menu.menuItems[i + 1] # "separator"

\* C36: between two keys, when the menu has an entry that is not a separator,
\* the selected index of the main menu and, in split mode, that of the pane's
\* menu are within the list and do not designate a separator.
CX_C36 ==
    (/\ menu.pc = "idle"
     /\ \E i \in 1..Len(menu.menuItems) : menu.menuItems[i] # "separator")
       => /\ Selectable(menu.menuIndex)
          /\ menu.splitMode => Selectable(menu.paneMenuIndex)

\* C37: every menuUp and menuDown that is entered returns, and so does every
\* paneMenuUp and paneMenuDown.
CX_C37 == (menu.pc # "idle") ~> (menu.pc = "idle")

----------------------------------------------------------------------------
(* Claims about wrapping, prefixes and the order of the rendered blocks *)

\* the words joined by single blanks
RECURSIVE JoinWords(_)
JoinWords(words) ==
    IF words = <<>> THEN <<>>
    ELSE IF Len(words) = 1 THEN Head(words)
         ELSE Head(words) \o <<" ">> \o JoinWords(Tail(words))

\* what a line holds after the prefix; the line itself when it is shorter
AfterPrefix(line) ==
    SubSeq(line, Len(wrap.prefix) + 1, Len(line))

StartsWithPrefix(line) ==
    /\ Len(line) >= Len(wrap.prefix)
    /\ SubSeq(line, 1, Len(wrap.prefix)) = wrap.prefix

\* the lines hold the words, whole and in order, every line starts with the
\* prefix and holds at least one word, and a line of two or more words fits
\* the available width
RECURSIVE Packs(_, _)
Packs(words, lines) ==
    IF words = <<>> THEN lines = <<>>
    ELSE /\ lines # <<>>
         /\ StartsWithPrefix(Head(lines))
         /\ LET held == Fields(AfterPrefix(Head(lines)))
                n == Len(held)
            IN /\ n >= 1 /\ n <= Len(words)
               /\ held = SubSeq(words, 1, n)
               /\ AfterPrefix(Head(lines)) = JoinWords(held)
               /\ n >= 2 => Len(AfterPrefix(Head(lines))) <= wrap.width - Len(wrap.prefix)
               /\ Packs(SubSeq(words, n + 1, Len(words)), Tail(lines))

\* the lines are, paragraph after paragraph, the prefix alone for a paragraph
\* without words and a packing of its words otherwise
RECURSIVE WrapsParagraphs(_, _)
WrapsParagraphs(paragraphs, lines) ==
    IF paragraphs = <<>> THEN lines = <<>>
    ELSE LET words == Fields(Head(paragraphs))
         IN IF words = <<>>
            THEN /\ lines # <<>>
                 /\ Head(lines) = wrap.prefix
                 /\ WrapsParagraphs(Tail(paragraphs), Tail(lines))
            ELSE \E k \in 1..Len(lines) :
                   /\ Packs(words, SubSeq(lines, 1, k))
                   /\ WrapsParagraphs(Tail(paragraphs), SubSeq(lines, k + 1, Len(lines)))

\* C38 as stated: whatever the width, the lines wrapWithPrefix returns hold
\* the words of each paragraph whole and in order, one line of the prefix
\* alone per paragraph without words, every line starting with the prefix, and
\* a second word on a line only if the line then fits the available width.
CX_C38 == wrap.done => WrapsParagraphs(Split(wrap.text, NL), wrap.lines)

\* C38 (amended): when the available width (width less the prefix) is
\* positive, the lines are as C38 says; when the width or the available width
\* is not positive, the result is the single string of the prefix followed by
\* the text as it is, newlines and runs of blanks included.
Thm_C38 ==
    wrap.done
       => IF wrap.width > 0 /\ wrap.width - Len(wrap.prefix) > 0
          THEN WrapsParagraphs(Split(wrap.text, NL), wrap.lines)
          ELSE wrap.lines = <<wrap.prefix \o wrap.text>>

\* a text of three words was wrapped into more than one line, one of them
\* holding two words
Wit_C38 ==
    /\ wrap.done
    /\ wrap.width - Len(wrap.prefix) > 0
    /\ Len(Fields(wrap.text)) = 3
    /\ Len(wrap.lines) = 2
    /\ \E k \in 1..2 : Len(Fields(AfterPrefix(wrap.lines[k]))) = 2

\* the blocks of the rendered text: none when the width is not positive
\* (app.go:637-639), those of the walk from the roots otherwise
Blocks ==
    IF renderWidth <= 0 THEN <<>>
    ELSE RenderBlocks(forest, forest.roots, 1, <<>>, renderWidth)

\* the parent of a node that is not a root
ParentNode(n) == CHOOSE q \in DOMAIN forest.children : ParentOf(q, n)

\* the node has a later sibling: it is not the last of its parent's children,
\* or not the last root
LaterSibling(n) ==
    LET siblings == IF IsRootNode(n) THEN forest.roots
                    ELSE forest.children[ParentNode(n)]
    IN siblings[Len(siblings)] # n

\* the ancestors of a node that the roots reach, the root first
RECURSIVE AncestorsOf(_)
AncestorsOf(n) ==
    IF IsRootNode(n) THEN <<>>
    ELSE AncestorsOf(ParentNode(n)) \o <<ParentNode(n)>>

\* the 3-column segments of the glyphs
GuideSegment == <<"|", " ", " ">>
BlankSegment == <<" ", " ", " ">>
BranchSegment == <<"+", "-", " ">>
CornerSegment == <<"^", "-", " ">>

\* one segment per ancestor: a guide if the ancestor has a later sibling
RECURSIVE AncestorSegments(_)
AncestorSegments(ancestors) ==
    IF ancestors = <<>> THEN <<>>
    ELSE (IF LaterSibling(Head(ancestors)) THEN GuideSegment ELSE BlankSegment)
         \o AncestorSegments(Tail(ancestors))

StartsWith(line, prefix) ==
    Len(line) >= Len(prefix) /\ SubSeq(line, 1, Len(prefix)) = prefix

\* C39: in the text renderComments returns, the header prefix and the body
\* prefix of a node at depth d are d ancestor segments and one own segment of
\* 3 columns each: a guide for an ancestor with a later sibling and blanks
\* otherwise; the branch glyph on the header and a guide on the body of a node
\* with a later sibling, the corner glyph and blanks for a last sibling.
Thm_C39 ==
    (tphase = "rendered" /\ variant = "model")
       => LET bs == Blocks
          IN /\ rendered = LinesOf(WrittenFor(bs))
             /\ \A i \in 1..Len(bs) :
                  LET b == bs[i]
                      ancestors == AncestorsOf(b.node)
                      later == LaterSibling(b.node)
                  IN /\ b.headerPrefix = AncestorSegments(ancestors)
                                           \o (IF later THEN BranchSegment ELSE CornerSegment)
                     /\ b.bodyPrefix = AncestorSegments(ancestors)
                                           \o (IF later THEN GuideSegment ELSE BlankSegment)
                     /\ Len(b.headerPrefix) = 3 * (Len(ancestors) + 1)
                     /\ Len(b.bodyPrefix) = 3 * (Len(ancestors) + 1)
                     /\ \A k \in 1..Len(b.header) : StartsWith(b.header[k], b.headerPrefix)
                     /\ \A k \in 1..Len(b.body) : StartsWith(b.body[k], b.bodyPrefix)

\* a node at depth 2 was rendered whose grandparent has a later sibling and
\* whose parent has none
Wit_C39 ==
    /\ tphase = "rendered" /\ variant = "model"
    /\ \E i \in 1..Len(Blocks) :
         LET ancestors == AncestorsOf(Blocks[i].node)
         IN /\ Len(ancestors) = 2
            /\ LaterSibling(ancestors[1])
            /\ ~LaterSibling(ancestors[2])

\* the lines of the blocks: for each block the lines of its header, those of
\* its body and one empty line
RECURSIVE BlockLines(_)
BlockLines(blocks) ==
    IF blocks = <<>> THEN <<>>
    ELSE LinesOf(Head(blocks).header) \o LinesOf(Head(blocks).body) \o << <<>> >>
         \o BlockLines(Tail(blocks))

\* C40: at a positive width the rendered text is, for the nodes of the forest
\* in depth-first pre-order and each once, the node's header lines, its body
\* lines and one empty line; the block of a node with replies is directly
\* followed by the block of its first reply, every reply comes after its
\* parent, and a reply's prefixes are 3 columns longer than its parent's.
Thm_C40 ==
    (tphase = "rendered" /\ variant = "model" /\ renderWidth > 0)
       => LET bs == Blocks
          IN /\ [i \in 1..Len(bs) |-> bs[i].node] = Preorder(forest)
             /\ \A i, j \in 1..Len(bs) : bs[i].node = bs[j].node => i = j
             /\ rendered = BlockLines(bs)
             /\ \A i \in 1..Len(bs) :
                  /\ Len(bs[i].header) >= 1 /\ Len(bs[i].body) >= 1
                  /\ forest.children[bs[i].node] # <<>>
                       => /\ i < Len(bs)
                          /\ bs[i + 1].node = forest.children[bs[i].node][1]
             /\ \A i, j \in 1..Len(bs) :
                  ParentOf(bs[i].node, bs[j].node)
                    => /\ i < j
                       /\ Len(bs[j].headerPrefix) = Len(bs[i].headerPrefix) + 3
                       /\ Len(bs[j].bodyPrefix) = Len(bs[i].bodyPrefix) + 3

\* four records were rendered: a root with two replies, the first of which
\* has a reply of its own
Wit_C40 ==
    /\ tphase = "rendered" /\ variant = "model" /\ renderWidth > 0
    /\ Len(Blocks) = 4
    /\ \E i \in 1..4 :
         /\ Len(forest.children[Blocks[i].node]) = 2
         /\ forest.children[forest.children[Blocks[i].node][1]] # <<>>

====
